---------------------------- MODULE Spec2Model ----------------------------
(***************************************************************************)
(* chip8vm: the CHIP-8 interpreter core (CpuImpl), its memory, the         *)
(* framebuffer behind the GPU and the keyboard latch, as a state machine.  *)
(* One Step is Cpu::tick(now) followed by Cpu::update().                   *)
(***************************************************************************)
EXTENDS Integers, Sequences, FiniteSets, TLC

(***************************************************************************)
(* Program constants.                                                      *)
(***************************************************************************)
PC_INCR == 2
REG_COUNT == 16
STACK_SIZE == 16
PROGRAM_START == 512
MEMORY_SIZE == 4096
KEY_COUNT == 16
DISPLAY_WIDTH == 64
DISPLAY_HEIGHT == 32
DELAY_TIMER_TICK_RATE == 60
DELAY_TIMER_TICK_DURATION == 1000 \div DELAY_TIMER_TICK_RATE
SOUND_TIMER_TICK_RATE == 60
SOUND_TIMER_TICK_DURATION == 1000 \div SOUND_TIMER_TICK_RATE

(***************************************************************************)
(* Bounds of the exploration.                                              *)
(***************************************************************************)
\* the host clock (SDL_GetTicks) is explored up to this many milliseconds
MaxTick == 24
\* between two steps the host clock advances by a multiple of this, up to the
\* duration of a timer tick
TickStep == 8

(***************************************************************************)
(* Fixed-width integer arithmetic.                                         *)
(***************************************************************************)
U8(n) == n % 256
U16(n) == n % 65536

RECURSIVE BitAnd(_, _)
BitAnd(a, b) ==
    IF a = 0 \/ b = 0 THEN 0
    ELSE (a % 2) * (b % 2) + 2 * BitAnd(a \div 2, b \div 2)

RECURSIVE BitOr(_, _)
BitOr(a, b) ==
    IF a = 0 THEN b
    ELSE IF b = 0 THEN a
    ELSE (IF a % 2 = 1 \/ b % 2 = 1 THEN 1 ELSE 0) + 2 * BitOr(a \div 2, b \div 2)

RECURSIVE BitXor(_, _)
BitXor(a, b) ==
    IF a = 0 THEN b
    ELSE IF b = 0 THEN a
    ELSE ((a + b) % 2) + 2 * BitXor(a \div 2, b \div 2)

(***************************************************************************)
(* Memory: a zero-filled byte vector of MEMORY_SIZE bytes.  It is kept as  *)
(* the function from the addresses holding a nonzero byte to that byte.    *)
(* std::vector::operator[] does no bounds check: an access at an index     *)
(* >= MEMORY_SIZE is undefined behaviour.                                  *)
(***************************************************************************)
InMemory(address) == address < MEMORY_SIZE

\* the values an out-of-bounds read may produce (representatives)
OobBytes == {0, 255}

\* Memory::Memory(size)
EmptyMemory == [a \in {} |-> 0]

\* Memory::load<uint8_t>(address), address in bounds
load8(mem, address) == IF address \in DOMAIN mem THEN mem[address] ELSE 0

\* Memory::load<uint8_t>(address): the set of bytes the read may return
load8Set(mem, address) ==
    IF InMemory(address) THEN {load8(mem, address)} ELSE OobBytes

\* Memory::store(address, byte); an out-of-bounds write lands outside the vector
store(mem, address, byte) ==
    IF ~InMemory(address) THEN mem
    ELSE IF byte # 0 THEN (address :> byte) @@ mem
    ELSE IF address \in DOMAIN mem
    THEN [a \in (DOMAIN mem) \ {address} |-> mem[a]]
    ELSE mem

\* variant of load16Set: the two bytes taken in host (little-endian) order
load16Set_LittleEndian(mem, address) ==
    { BitOr(hi * 256, lo) : lo \in load8Set(mem, address),
                            hi \in load8Set(mem, U16(address + 1)) }

\* Memory::load<uint16_t>(address): big-endian, the set of possible words
load16Set(mem, address) ==
    { BitOr(hi * 256, lo) : hi \in load8Set(mem, address),
                            lo \in load8Set(mem, U16(address + 1)) }

\* Memory::storeBuffer(startAddress, Bytes): buffer[k] lands at
\* startAddress + k - 1; bytes past the vector land outside it
storeBytes(mem, startAddress, buffer) ==
    LET written == {a \in startAddress..(startAddress + Len(buffer) - 1) :
                       InMemory(a)}
        byteAt(a) == IF a \in written THEN buffer[a - startAddress + 1]
                     ELSE mem[a]
    IN [a \in {b \in (DOMAIN mem) \cup written : byteAt(b) # 0} |-> byteAt(a)]

\* variant of wordBytes: the endian argument ignored, high byte first
wordBytes_EndianIgnored(word, endian) ==
    <<BitAnd(word \div 256, 255), BitAnd(word, 255)>>

\* the switch of Memory::storeBuffer(startAddress, Words, endian): the bytes
\* written at address and at address + 1
wordBytes(word, endian) ==
    IF endian = "LITTLE"
    THEN <<BitAnd(word \div 256, 255), BitAnd(word, 255)>>
    ELSE <<BitAnd(word, 255), BitAnd(word \div 256, 255)>>

\* Memory::storeBuffer(startAddress, Words, endian)
RECURSIVE storeWords(_, _, _, _)
storeWords(mem, startAddress, buffer, endian) ==
    IF buffer = << >> THEN mem
    ELSE LET bytes == wordBytes(Head(buffer), endian)
         IN storeWords(store(store(mem, startAddress, bytes[1]),
                             startAddress + 1, bytes[2]),
                       startAddress + 2, Tail(buffer), endian)

(***************************************************************************)
(* Opcode codec.                                                           *)
(***************************************************************************)
OPCODE_00E0 == 224
OPCODE_00EE == 238
OPCODE_1NNN == 4096
OPCODE_2NNN == 8192
OPCODE_3XKK == 12288
OPCODE_4XKK == 16384
OPCODE_5XY0 == 20480
OPCODE_6XKK == 24576
OPCODE_7XKK == 28672
OPCODE_8XY0 == 32768
OPCODE_8XY1 == 32769
OPCODE_8XY2 == 32770
OPCODE_8XY3 == 32771
OPCODE_8XY4 == 32772
OPCODE_8XY5 == 32773
OPCODE_8XY6 == 32774
OPCODE_8XY7 == 32775
OPCODE_8XYE == 32782
OPCODE_9XY0 == 36864
OPCODE_ANNN == 40960
OPCODE_BNNN == 45056
OPCODE_CXKK == 49152
OPCODE_DXYN == 53248
OPCODE_EX9E == 57502
OPCODE_EXA1 == 57505
OPCODE_FX07 == 61447
OPCODE_FX0A == 61450
OPCODE_FX15 == 61461
OPCODE_FX18 == 61464
OPCODE_FX1E == 61470
OPCODE_FX29 == 61481
OPCODE_FX33 == 61491
OPCODE_FX55 == 61525
OPCODE_FX65 == 61541

\* a C++ comparison used as an operand of the bitwise |: true is 1, false 0
AsInt(b) == IF b THEN 1 ELSE 0

\* variant of decodeInstruction: the bitwise | between the first two
\* comparisons of the second test read as a bitwise &
decodeInstruction_BitwiseAnd(opcode) ==
    LET decodedOpcode == BitAnd(opcode, 61440)
    IN IF decodedOpcode = 0 \/ decodedOpcode = 57344 \/ decodedOpcode = 61440
       THEN BitOr(decodedOpcode, BitAnd(opcode, 255))
       ELSE IF BitAnd(AsInt(decodedOpcode = 20480),
                      AsInt(decodedOpcode = 32768)) # 0
               \/ decodedOpcode = 36864
       THEN BitOr(decodedOpcode, BitAnd(opcode, 15))
       ELSE decodedOpcode

\* opcode::decodeInstruction; its second test is
\* decodedOpcode == 0x5000 | decodedOpcode == 0x8000 || decodedOpcode == 0x9000,
\* that is ((== 0x5000) | (== 0x8000)) || (== 0x9000)
decodeInstruction(opcode) ==
    LET decodedOpcode == BitAnd(opcode, 61440)
    IN IF decodedOpcode = 0 \/ decodedOpcode = 57344 \/ decodedOpcode = 61440
       THEN BitOr(decodedOpcode, BitAnd(opcode, 255))
       ELSE IF BitOr(AsInt(decodedOpcode = 20480),
                     AsInt(decodedOpcode = 32768)) # 0
               \/ decodedOpcode = 36864
       THEN BitOr(decodedOpcode, BitAnd(opcode, 15))
       ELSE decodedOpcode

\* variant of joinX: the register index shifted by one nibble only
joinX_ShiftNibble(op) == BitAnd(op.x, 15) * 16

\* Operand::join<X>
joinX(op) == BitAnd(op.x, 15) * 256

\* Operand::join<XKK>, join<XY>, join<XYN>, join<NNN>
joinXKK(op) == BitOr(joinX(op), BitAnd(op.kk, 255))
joinXY(op) == BitOr(joinX(op), BitAnd(op.y, 15) * 16)
joinXYN(op) == BitOr(joinXY(op), BitAnd(op.n, 15))
joinNNN(op) == BitAnd(op.nnn, 4095)

\* Operand::split<X>, split<XKK>, split<XY>, split<XYN>, split<NNN>
splitX(opcode) == [x |-> BitAnd(opcode \div 256, 15)]
splitXKK(opcode) == [x |-> BitAnd(opcode \div 256, 15), kk |-> BitAnd(opcode, 255)]
splitXY(opcode) == [x |-> BitAnd(opcode \div 256, 15), y |-> BitAnd(opcode \div 16, 15)]
splitXYN(opcode) ==
    [x |-> BitAnd(opcode \div 256, 15), y |-> BitAnd(opcode \div 16, 15),
     n |-> BitAnd(opcode, 15)]
splitNNN(opcode) == [nnn |-> BitAnd(opcode, 4095)]

\* opcode::encodeNXXX: the instruction's encoding OR the joined operands
encode(instruction, shape, op) ==
    BitOr(instruction,
          CASE shape = "X" -> joinX(op)
            [] shape = "XKK" -> joinXKK(op)
            [] shape = "XY" -> joinXY(op)
            [] shape = "XYN" -> joinXYN(op)
            [] shape = "NNN" -> joinNNN(op))

\* opcode::decodeNXXX: the operands split off the opcode
decodeOperands(shape, opcode) ==
    CASE shape = "X" -> splitX(opcode)
      [] shape = "XKK" -> splitXKK(opcode)
      [] shape = "XY" -> splitXY(opcode)
      [] shape = "XYN" -> splitXYN(opcode)
      [] shape = "NNN" -> splitNNN(opcode)


(***************************************************************************)
(* GPU: the framebuffer is a Memory of DISPLAY_WIDTH * DISPLAY_HEIGHT      *)
(* bytes, one byte (0x00 or 0xFF) per pixel.                               *)
(***************************************************************************)
\* variant of clearFrame: the framebuffer is left as it is
clearFrame_KeepsPixels(frame) == frame

\* GpuImpl::clearFramebuffer
clearFrame(frame) == EmptyMemory

\* variant of computeLinearAddress: the coordinates are not wrapped
computeLinearAddress_NoWrap(x, y) == DISPLAY_WIDTH * y + x

\* GpuImpl::computeLinearAddress
computeLinearAddress(x, y) ==
    DISPLAY_WIDTH * BitAnd(y, DISPLAY_HEIGHT - 1) + BitAnd(x, DISPLAY_WIDTH - 1)

\* variant of drawPixel: the sprite value is ORed into the pixel
drawPixel_OrsPixel(frame, xPixel, yPixel, spriteByte, bitIndex) ==
    LET spriteValue == IF BitAnd(spriteByte, bitIndex) # 0 THEN 255 ELSE 0
        address == computeLinearAddress(xPixel, yPixel)
    IN [address |-> address,
        pixel |-> BitOr(load8(frame, address), spriteValue)]

\* the body of GpuImpl::drawSprite's inner loop: the address it stores to
\* and the pixel it stores there
drawPixel(frame, xPixel, yPixel, spriteByte, bitIndex) ==
    LET spriteValue == IF BitAnd(spriteByte, bitIndex) # 0 THEN 255 ELSE 0
        address == computeLinearAddress(xPixel, yPixel)
    IN [address |-> address,
        pixel |-> BitXor(load8(frame, address), spriteValue)]

\* GpuImpl::drawSprite: the new framebuffer and the returned flag.  The loops
\* visit rows 0..size-1 (size <= 15) and columns 0..7 (bitIndex = 0x80 >> col);
\* after the wrap of computeLinearAddress no address is visited twice, so
\* every visit reads the pixel of the frame the call started with.
drawSprite(frame, x, y, sprite) ==
    LET visits == (0..(Len(sprite) - 1)) \X (0..7)
        visit(v) == drawPixel(frame, U8(x + v[2]), U8(y + v[1]),
                              sprite[v[1] + 1], 128 \div (2 ^ v[2]))
        stored == {visit(v) : v \in visits}
        written == {s.address : s \in stored}
        byteAt(a) == IF a \in written
                     THEN (CHOOSE s \in stored : s.address = a).pixel
                     ELSE frame[a]
    IN [frame |-> [a \in {b \in (DOMAIN frame) \cup written : byteAt(b) # 0}
                      |-> byteAt(a)],
        erased |-> \E s \in stored : s.pixel = 0]

(***************************************************************************)
(* Keyboard: keys_[KEY_COUNT], kept as the set of pressed key codes.       *)
(* keys_[key] with key >= KEY_COUNT reads past the array.                  *)
(***************************************************************************)
\* KeyboardImpl::isKeyPressed: the set of values the call may return
isKeyPressed(keys, key) ==
    IF key < KEY_COUNT THEN {key \in keys} ELSE BOOLEAN

(***************************************************************************)
(* The machine a handler works on: m = [regs, memory, frame, ub], regs the *)
(* RegContext, ub set once an access left its object, draws the numbers    *)
(* taken from the bit generator.  A handler yields                         *)
(* the set of machines it may leave (one, unless it draws a random number  *)
(* or runs into undefined behaviour).                                      *)
(***************************************************************************)
\* Cpu::RegContext, value-initialised
ZeroRegs ==
    [pc |-> 0, vx |-> [r \in 0..(REG_COUNT - 1) |-> 0], sp |-> 0,
     stack |-> [k \in 0..(STACK_SIZE - 1) |-> 0], i |-> 0, dt |-> 0, st |-> 0]

\* variant of resetRegisters: I is not reset
resetRegisters_KeepsI(regs) ==
    [regs EXCEPT !.pc = PROGRAM_START,
                 !.vx = [r \in 0..(REG_COUNT - 1) |-> 0],
                 !.sp = 0, !.dt = 0, !.st = 0]

\* CpuImpl::resetRegisters
resetRegisters(regs) ==
    [regs EXCEPT !.pc = PROGRAM_START,
                 !.vx = [r \in 0..(REG_COUNT - 1) |-> 0],
                 !.sp = 0, !.i = 0, !.dt = 0, !.st = 0]

\* the values std::uniform_int_distribution<uint8_t> may draw (representatives)
RandomBytes == {0, 90, 255}

\* CpuImpl::opcodeClearDisplay
opcodeClearDisplay(m, opcode) == {[m EXCEPT !.frame = clearFrame(m.frame)]}

\* variant of opcodeReturn: the slot is read before SP is decremented
opcodeReturn_ReadBeforeDecrement(m, opcode) ==
    LET sp == IF m.regs.sp > 0 THEN m.regs.sp - 1 ELSE m.regs.sp
    IN IF m.regs.sp < STACK_SIZE
       THEN {[m EXCEPT !.regs.sp = sp, !.regs.pc = m.regs.stack[m.regs.sp]]}
       ELSE {[m EXCEPT !.regs.sp = sp, !.regs.pc = m.regs.i, !.ub = TRUE]}

\* CpuImpl::opcodeReturn
opcodeReturn(m, opcode) ==
    LET sp == IF m.regs.sp > 0 THEN m.regs.sp - 1 ELSE m.regs.sp
    IN IF sp < STACK_SIZE
       THEN {[m EXCEPT !.regs.sp = sp, !.regs.pc = m.regs.stack[sp]]}
       ELSE \* stack[sp] read past the array: it overlays i, dt/st, ...
            {[m EXCEPT !.regs.sp = sp, !.regs.pc = v, !.ub = TRUE] :
                 v \in {m.regs.i, m.regs.dt + 256 * m.regs.st, 0}}

\* CpuImpl::opcodeJump
opcodeJump(m, opcode) == {[m EXCEPT !.regs.pc = splitNNN(opcode).nnn]}

\* variant of opcodeCall: SP is incremented before the slot is written
opcodeCall_PreIncrement(m, opcode) ==
    LET sp == U8(m.regs.sp + 1)
    IN IF sp < STACK_SIZE
       THEN {[m EXCEPT !.regs.stack[sp] = m.regs.pc, !.regs.sp = sp,
                       !.regs.pc = splitNNN(opcode).nnn]}
       ELSE {[m EXCEPT !.regs.sp = sp, !.regs.pc = splitNNN(opcode).nnn,
                       !.ub = TRUE]}

\* CpuImpl::opcodeCall
opcodeCall(m, opcode) ==
    LET sp == m.regs.sp
        pushed ==
            IF sp < STACK_SIZE
            THEN {[m EXCEPT !.regs.stack[sp] = m.regs.pc]}
            ELSE \* stack[sp] written past the array: stack[16] overlays i,
                 \* stack[17] overlays dt and st, the rest leaves RegContext
                 IF sp = STACK_SIZE
                 THEN {[m EXCEPT !.regs.i = v, !.ub = TRUE] :
                           v \in {m.regs.i, m.regs.pc}}
                 ELSE IF sp = STACK_SIZE + 1
                 THEN {[m EXCEPT !.ub = TRUE],
                       [m EXCEPT !.regs.dt = m.regs.pc % 256,
                                 !.regs.st = m.regs.pc \div 256, !.ub = TRUE]}
                 ELSE {[m EXCEPT !.ub = TRUE]}
    IN {[p EXCEPT !.regs.sp = U8(sp + 1), !.regs.pc = splitNNN(opcode).nnn] :
            p \in pushed}

\* CpuImpl::opcodeSkipNextIfEquals
opcodeSkipNextIfEquals(m, opcode) ==
    LET op == splitXKK(opcode)
    IN IF m.regs.vx[op.x] = op.kk
       THEN {[m EXCEPT !.regs.pc = U16(m.regs.pc + 2)]}
       ELSE {m}

\* variant of opcodeSkipNextIfNotEquals: the comparison of 3XKK
opcodeSkipNextIfNotEquals_SkipsOnEqual(m, opcode) ==
    LET op == splitXKK(opcode)
    IN IF m.regs.vx[op.x] = op.kk
       THEN {[m EXCEPT !.regs.pc = U16(m.regs.pc + 2)]}
       ELSE {m}

\* CpuImpl::opcodeSkipNextIfNotEquals
opcodeSkipNextIfNotEquals(m, opcode) ==
    LET op == splitXKK(opcode)
    IN IF m.regs.vx[op.x] # op.kk
       THEN {[m EXCEPT !.regs.pc = U16(m.regs.pc + 2)]}
       ELSE {m}

\* CpuImpl::opcodeSkipNextIfEqualsRegister
opcodeSkipNextIfEqualsRegister(m, opcode) ==
    LET op == splitXY(opcode)
    IN IF m.regs.vx[op.x] = m.regs.vx[op.y]
       THEN {[m EXCEPT !.regs.pc = U16(m.regs.pc + 2)]}
       ELSE {m}

\* CpuImpl::opcodeLoadNumber
opcodeLoadNumber(m, opcode) ==
    LET op == splitXKK(opcode)
    IN {[m EXCEPT !.regs.vx[op.x] = op.kk]}

\* CpuImpl::opcodeAddNumber
opcodeAddNumber(m, opcode) ==
    LET op == splitXKK(opcode)
    IN {[m EXCEPT !.regs.vx[op.x] = U8(m.regs.vx[op.x] + op.kk)]}

\* CpuImpl::opcodeLoadRegister
opcodeLoadRegister(m, opcode) ==
    LET op == splitXY(opcode)
    IN {[m EXCEPT !.regs.vx[op.x] = m.regs.vx[op.y]]}

\* CpuImpl::opcodeOrRegister
opcodeOrRegister(m, opcode) ==
    LET op == splitXY(opcode)
    IN {[m EXCEPT !.regs.vx[op.x] = BitOr(m.regs.vx[op.x], m.regs.vx[op.y])]}

\* CpuImpl::opcodeAndRegister
opcodeAndRegister(m, opcode) ==
    LET op == splitXY(opcode)
    IN {[m EXCEPT !.regs.vx[op.x] = BitAnd(m.regs.vx[op.x], m.regs.vx[op.y])]}

\* CpuImpl::opcodeXorRegister
opcodeXorRegister(m, opcode) ==
    LET op == splitXY(opcode)
    IN {[m EXCEPT !.regs.vx[op.x] = BitXor(m.regs.vx[op.x], m.regs.vx[op.y])]}

\* variant of opcodeAddRegister: Vx is written first, then VF
opcodeAddRegister_FlagLast(m, opcode) ==
    LET op == splitXY(opcode)
        sum == U16(m.regs.vx[op.x] + m.regs.vx[op.y])
        flag == IF BitAnd(sum, 65280) # 0 THEN 1 ELSE 0
    IN {[m EXCEPT !.regs.vx = [[m.regs.vx EXCEPT ![op.x] = BitAnd(sum, 255)]
                                  EXCEPT ![15] = flag]]}

\* CpuImpl::opcodeAddRegister: VF is written first, then Vx
opcodeAddRegister(m, opcode) ==
    LET op == splitXY(opcode)
        sum == U16(m.regs.vx[op.x] + m.regs.vx[op.y])
        flag == IF BitAnd(sum, 65280) # 0 THEN 1 ELSE 0
    IN {[m EXCEPT !.regs.vx = [[m.regs.vx EXCEPT ![15] = flag]
                                  EXCEPT ![op.x] = BitAnd(sum, 255)]]}

\* variant of opcodeSubRegister: the flag is set on Vx >= Vy
opcodeSubRegister_FlagOnEqual(m, opcode) ==
    LET op == splitXY(opcode)
        difference == U16(m.regs.vx[op.x] - m.regs.vx[op.y] + 65536)
        flag == IF m.regs.vx[op.x] >= m.regs.vx[op.y] THEN 1 ELSE 0
    IN {[m EXCEPT !.regs.vx = [[m.regs.vx EXCEPT ![15] = flag]
                                  EXCEPT ![op.x] = BitAnd(difference, 255)]]}

\* CpuImpl::opcodeSubRegister: VF is written first, then Vx
opcodeSubRegister(m, opcode) ==
    LET op == splitXY(opcode)
        difference == U16(m.regs.vx[op.x] - m.regs.vx[op.y] + 65536)
        flag == IF m.regs.vx[op.x] > m.regs.vx[op.y] THEN 1 ELSE 0
    IN {[m EXCEPT !.regs.vx = [[m.regs.vx EXCEPT ![15] = flag]
                                  EXCEPT ![op.x] = BitAnd(difference, 255)]]}

\* variant of opcodeShrRegister: Vx is shifted in place
opcodeShrRegister_ShiftsVx(m, opcode) ==
    LET op == splitXY(opcode)
        vf == [m.regs.vx EXCEPT ![15] = BitAnd(m.regs.vx[op.x], 1)]
    IN {[m EXCEPT !.regs.vx = [vf EXCEPT ![op.x] = vf[op.x] \div 2]]}

\* CpuImpl::opcodeShrRegister: VF is written first, then Vy is read again
opcodeShrRegister(m, opcode) ==
    LET op == splitXY(opcode)
        vf == [m.regs.vx EXCEPT ![15] = BitAnd(m.regs.vx[op.y], 1)]
    IN {[m EXCEPT !.regs.vx = [vf EXCEPT ![op.x] = vf[op.y] \div 2]]}

\* CpuImpl::opcodeSubnRegister: VF is written first, then Vx
opcodeSubnRegister(m, opcode) ==
    LET op == splitXY(opcode)
        difference == U16(m.regs.vx[op.y] - m.regs.vx[op.x] + 65536)
        flag == IF m.regs.vx[op.y] > m.regs.vx[op.x] THEN 1 ELSE 0
    IN {[m EXCEPT !.regs.vx = [[m.regs.vx EXCEPT ![15] = flag]
                                  EXCEPT ![op.x] = BitAnd(difference, 255)]]}

\* variant of opcodeShlRegister: Vx is shifted in place
opcodeShlRegister_ShiftsVx(m, opcode) ==
    LET op == splitXY(opcode)
        vf == [m.regs.vx EXCEPT ![15] = BitAnd(m.regs.vx[op.x], 128)]
    IN {[m EXCEPT !.regs.vx = [vf EXCEPT ![op.x] = U8(vf[op.x] * 2)]]}

\* CpuImpl::opcodeShlRegister: VF is written first, then Vy is read again
opcodeShlRegister(m, opcode) ==
    LET op == splitXY(opcode)
        vf == [m.regs.vx EXCEPT ![15] = BitAnd(m.regs.vx[op.y], 128)]
    IN {[m EXCEPT !.regs.vx = [vf EXCEPT ![op.x] = U8(vf[op.y] * 2)]]}

\* CpuImpl::opcodeSkipNextIfNotEqualsRegister
opcodeSkipNextIfNotEqualsRegister(m, opcode) ==
    LET op == splitXY(opcode)
    IN IF m.regs.vx[op.x] # m.regs.vx[op.y]
       THEN {[m EXCEPT !.regs.pc = U16(m.regs.pc + 2)]}
       ELSE {m}

\* CpuImpl::opcodeLoadIRegister
opcodeLoadIRegister(m, opcode) == {[m EXCEPT !.regs.i = splitNNN(opcode).nnn]}

\* CpuImpl::opcodeJumpOffset
opcodeJumpOffset(m, opcode) ==
    {[m EXCEPT !.regs.pc = U16(splitNNN(opcode).nnn + m.regs.vx[0])]}

\* variant of opcodeRandomNumber: the number ORed with kk
opcodeRandomNumber_OrsMask(m, opcode) ==
    LET op == splitXKK(opcode)
    IN {[m EXCEPT !.regs.vx[op.x] = BitOr(number, op.kk),
                  !.draws = Append(@, number)] :
            number \in RandomBytes}

\* variant of opcodeRandomNumber: the bit generator seeded from outside, so
\* that the number used is not the one the default-seeded stream holds
opcodeRandomNumber_ExternalSeed(m, opcode) ==
    LET op == splitXKK(opcode)
    IN {[m EXCEPT !.regs.vx[op.x] = BitAnd(number, op.kk),
                  !.draws = Append(@, inStream)] :
            number \in RandomBytes, inStream \in RandomBytes}

\* CpuImpl::opcodeRandomNumber: randomizer_(bitGenerator_) takes the next
\* number of the generator's stream; m.draws is the part of the stream this
\* CPU has consumed
opcodeRandomNumber(m, opcode) ==
    LET op == splitXKK(opcode)
    IN {[m EXCEPT !.regs.vx[op.x] = BitAnd(number, op.kk),
                  !.draws = Append(@, number)] :
            number \in RandomBytes}

\* the sprite rows opcodeDraw collects: the byte sequences that
\* memory_->load<uint8_t>(regs_.i + offset), offset < n, may return
RECURSIVE loadSprite(_, _, _)
loadSprite(mem, address, n) ==
    IF n = 0 THEN {<< >>}
    ELSE {<<b>> \o rest : b \in load8Set(mem, address),
                          rest \in loadSprite(mem, U16(address + 1), n - 1)}

\* does an access of n bytes from address leave the memory vector
LeavesMemory(address, n) ==
    \E offset \in 0..(n - 1) : ~InMemory(U16(address + offset))

\* CpuImpl::opcodeDraw
opcodeDraw(m, opcode) ==
    LET op == splitXYN(opcode)
    IN {LET g == drawSprite(m.frame, m.regs.vx[op.x], m.regs.vx[op.y], sprite)
        IN [m EXCEPT !.frame = g.frame,
                     !.regs.vx[15] = IF g.erased THEN 1 ELSE @,
                     !.ub = @ \/ LeavesMemory(m.regs.i, op.n)] :
            sprite \in loadSprite(m.memory, m.regs.i, op.n)}

\* CpuImpl::opcodeSkipNextIfKeyEqualsRegister
opcodeSkipNextIfKeyEqualsRegister(m, opcode, keys) ==
    LET op == splitX(opcode)
        key == m.regs.vx[op.x]
    IN {[m EXCEPT !.regs.pc = IF pressed THEN U16(@ + 2) ELSE @,
                  !.ub = @ \/ key >= KEY_COUNT] :
            pressed \in isKeyPressed(keys, key)}

\* CpuImpl::opcodeSkipNextIfKeyNotEqualsRegister
opcodeSkipNextIfKeyNotEqualsRegister(m, opcode, keys) ==
    LET op == splitX(opcode)
        key == m.regs.vx[op.x]
    IN {[m EXCEPT !.regs.pc = IF ~pressed THEN U16(@ + 2) ELSE @,
                  !.ub = @ \/ key >= KEY_COUNT] :
            pressed \in isKeyPressed(keys, key)}

\* CpuImpl::opcodeLoadDelayTimerFromRegister
opcodeLoadDelayTimerFromRegister(m, opcode) ==
    {[m EXCEPT !.regs.dt = m.regs.vx[splitX(opcode).x]]}

\* CpuImpl::opcodeLoadRegisterFromDelayTimer
opcodeLoadRegisterFromDelayTimer(m, opcode) ==
    {[m EXCEPT !.regs.vx[splitX(opcode).x] = m.regs.dt]}

\* CpuImpl::opcodeLoadSoundTimerFromRegister
opcodeLoadSoundTimerFromRegister(m, opcode) ==
    {[m EXCEPT !.regs.st = m.regs.vx[splitX(opcode).x]]}

\* CpuImpl::opcodeAddIRegister
opcodeAddIRegister(m, opcode) ==
    {[m EXCEPT !.regs.i = U16(m.regs.i + m.regs.vx[splitX(opcode).x])]}

\* CpuImpl::opcodeLoadIRegisterWithAddress
opcodeLoadIRegisterWithAddress(m, opcode) ==
    {[m EXCEPT !.regs.i = U16(m.regs.vx[splitX(opcode).x] * 5)]}

\* variant of opcodeStoreBinaryCodedDecimal: the digits stored in the order
\* the loop produces them, ones first
opcodeStoreBinaryCodedDecimal_OnesFirst(m, opcode) ==
    LET address == m.regs.i
        data == m.regs.vx[splitX(opcode).x]
        m0 == store(m.memory, address, data % 10)
        m1 == store(m0, U16(address + 1), (data \div 10) % 10)
        m2 == store(m1, U16(address + 2), ((data \div 10) \div 10) % 10)
    IN {[m EXCEPT !.memory = m2, !.ub = @ \/ LeavesMemory(address, 3)]}

\* CpuImpl::opcodeStoreBinaryCodedDecimal
opcodeStoreBinaryCodedDecimal(m, opcode) ==
    LET address == m.regs.i
        data == m.regs.vx[splitX(opcode).x]
        m0 == store(m.memory, U16(address + 2), data % 10)
        m1 == store(m0, U16(address + 1), (data \div 10) % 10)
        m2 == store(m1, address, ((data \div 10) \div 10) % 10)
    IN {[m EXCEPT !.memory = m2, !.ub = @ \/ LeavesMemory(address, 3)]}

\* the loop of CpuImpl::opcodeStoreRegistersWithAddress from index on
RECURSIVE storeRegisters(_, _, _)
storeRegisters(m, index, x) ==
    IF index > x THEN m
    ELSE storeRegisters(
             [m EXCEPT !.memory = store(@, m.regs.i, m.regs.vx[index]),
                       !.regs.i = U16(@ + 1),
                       !.ub = @ \/ ~InMemory(m.regs.i)],
             index + 1, x)

\* variant of opcodeStoreRegistersWithAddress: I is left where it was
opcodeStoreRegistersWithAddress_KeepsI(m, opcode) ==
    {[storeRegisters(m, 0, splitX(opcode).x) EXCEPT !.regs.i = m.regs.i]}

\* CpuImpl::opcodeStoreRegistersWithAddress
opcodeStoreRegistersWithAddress(m, opcode) ==
    {storeRegisters(m, 0, splitX(opcode).x)}

\* the loop of CpuImpl::opcodeLoadRegistersWithAddress from index on
RECURSIVE loadRegisters(_, _, _)
loadRegisters(m, index, x) ==
    IF index > x THEN {m}
    ELSE UNION {loadRegisters(
                    [m EXCEPT !.regs.vx[index] = b,
                              !.regs.i = U16(@ + 1),
                              !.ub = @ \/ ~InMemory(m.regs.i)],
                    index + 1, x) : b \in load8Set(m.memory, m.regs.i)}

\* variant of opcodeLoadRegistersWithAddress: the loop stops before Vx
opcodeLoadRegistersWithAddress_StopsBeforeVx(m, opcode) ==
    loadRegisters(m, 0, splitX(opcode).x - 1)

\* CpuImpl::opcodeLoadRegistersWithAddress
opcodeLoadRegistersWithAddress(m, opcode) ==
    loadRegisters(m, 0, splitX(opcode).x)

\* variant of decode: no lookup in the table, every opcode runs the handler
\* of 6XKK
decode_NoLookup(m, opcode, keys) == opcodeLoadNumber(m, opcode)

\* CpuImpl::OpcodeDecoder::decode with INSTRUCTION_TABLE
decode(m, opcode, keys) ==
    LET decodedInstruction == decodeInstruction(opcode)
    IN CASE decodedInstruction = OPCODE_00E0 -> opcodeClearDisplay(m, opcode)
         [] decodedInstruction = OPCODE_00EE -> opcodeReturn(m, opcode)
         [] decodedInstruction = OPCODE_1NNN -> opcodeJump(m, opcode)
         [] decodedInstruction = OPCODE_2NNN -> opcodeCall(m, opcode)
         [] decodedInstruction = OPCODE_3XKK -> opcodeSkipNextIfEquals(m, opcode)
         [] decodedInstruction = OPCODE_4XKK -> opcodeSkipNextIfNotEquals(m, opcode)
         [] decodedInstruction = OPCODE_5XY0 -> opcodeSkipNextIfEqualsRegister(m, opcode)
         [] decodedInstruction = OPCODE_6XKK -> opcodeLoadNumber(m, opcode)
         [] decodedInstruction = OPCODE_7XKK -> opcodeAddNumber(m, opcode)
         [] decodedInstruction = OPCODE_8XY0 -> opcodeLoadRegister(m, opcode)
         [] decodedInstruction = OPCODE_8XY1 -> opcodeOrRegister(m, opcode)
         [] decodedInstruction = OPCODE_8XY2 -> opcodeAndRegister(m, opcode)
         [] decodedInstruction = OPCODE_8XY3 -> opcodeXorRegister(m, opcode)
         [] decodedInstruction = OPCODE_8XY4 -> opcodeAddRegister(m, opcode)
         [] decodedInstruction = OPCODE_8XY5 -> opcodeSubRegister(m, opcode)
         [] decodedInstruction = OPCODE_8XY6 -> opcodeShrRegister(m, opcode)
         [] decodedInstruction = OPCODE_8XY7 -> opcodeSubnRegister(m, opcode)
         [] decodedInstruction = OPCODE_8XYE -> opcodeShlRegister(m, opcode)
         [] decodedInstruction = OPCODE_9XY0 -> opcodeSkipNextIfNotEqualsRegister(m, opcode)
         [] decodedInstruction = OPCODE_ANNN -> opcodeLoadIRegister(m, opcode)
         [] decodedInstruction = OPCODE_BNNN -> opcodeJumpOffset(m, opcode)
         [] decodedInstruction = OPCODE_CXKK -> opcodeRandomNumber(m, opcode)
         [] decodedInstruction = OPCODE_DXYN -> opcodeDraw(m, opcode)
         [] decodedInstruction = OPCODE_EX9E -> opcodeSkipNextIfKeyEqualsRegister(m, opcode, keys)
         [] decodedInstruction = OPCODE_EXA1 -> opcodeSkipNextIfKeyNotEqualsRegister(m, opcode, keys)
         [] decodedInstruction = OPCODE_FX07 -> opcodeLoadRegisterFromDelayTimer(m, opcode)
         [] decodedInstruction = OPCODE_FX15 -> opcodeLoadDelayTimerFromRegister(m, opcode)
         [] decodedInstruction = OPCODE_FX18 -> opcodeLoadSoundTimerFromRegister(m, opcode)
         [] decodedInstruction = OPCODE_FX1E -> opcodeAddIRegister(m, opcode)
         [] decodedInstruction = OPCODE_FX29 -> opcodeLoadIRegisterWithAddress(m, opcode)
         [] decodedInstruction = OPCODE_FX33 -> opcodeStoreBinaryCodedDecimal(m, opcode)
         [] decodedInstruction = OPCODE_FX55 -> opcodeStoreRegistersWithAddress(m, opcode)
         [] decodedInstruction = OPCODE_FX65 -> opcodeLoadRegistersWithAddress(m, opcode)
         [] OTHER -> {m}

\* tick_ - timerTick in uint32_t; a tick before timerTick wraps to a value
\* above 2^31, kept here as the largest number the checker holds
Elapsed(tick, timerTick) ==
    IF tick >= timerTick THEN tick - timerTick ELSE 2147483647

\* is a decrement due: the test of CpuImpl::updateTimer on the elapsed time
TimerDue(tick, timerTick, duration) == Elapsed(tick, timerTick) >= duration

\* variant of updateTimer: the timers are decremented without the > 0 test
updateTimer_NoZeroGuard(regs, tick, delayTimerTick, soundTimerTick) ==
    LET dt == IF TimerDue(tick, delayTimerTick, DELAY_TIMER_TICK_DURATION)
              THEN U8(regs.dt + 255) ELSE regs.dt
        st == IF TimerDue(tick, soundTimerTick, SOUND_TIMER_TICK_DURATION)
              THEN U8(regs.st + 255) ELSE regs.st
    IN [regs EXCEPT !.dt = dt, !.st = st]

\* CpuImpl::updateTimer
updateTimer(regs, tick, delayTimerTick, soundTimerTick) ==
    LET dt == IF TimerDue(tick, delayTimerTick, DELAY_TIMER_TICK_DURATION)
                 /\ regs.dt > 0
              THEN regs.dt - 1 ELSE regs.dt
        st == IF TimerDue(tick, soundTimerTick, SOUND_TIMER_TICK_DURATION)
                 /\ regs.st > 0
              THEN regs.st - 1 ELSE regs.st
    IN [regs EXCEPT !.dt = dt, !.st = st]

\* variant of update: the timers are advanced before the instruction runs
update_TimerFirst(m, keys, tick, delayTimerTick, soundTimerTick) ==
    UNION {
        {[m |-> e, opcode |-> opcode] :
            e \in decode([m EXCEPT !.regs = [updateTimer(m.regs, tick,
                                                 delayTimerTick, soundTimerTick)
                                             EXCEPT !.pc = U16(m.regs.pc + PC_INCR)],
                                   !.ub = @ \/ LeavesMemory(m.regs.pc, 2)],
                         opcode, keys)} :
        opcode \in load16Set(m.memory, m.regs.pc)}

\* CpuImpl::update: the set of [m, opcode] one update may leave
update(m, keys, tick, delayTimerTick, soundTimerTick) ==
    UNION {
        {[m |-> [e EXCEPT !.regs = updateTimer(e.regs, tick, delayTimerTick,
                                               soundTimerTick)],
          opcode |-> opcode] :
            e \in decode([m EXCEPT !.regs.pc = U16(m.regs.pc + PC_INCR),
                                   !.ub = @ \/ LeavesMemory(m.regs.pc, 2)],
                         opcode, keys)} :
        opcode \in load16Set(m.memory, m.regs.pc)}

(***************************************************************************)
(* The virtual machine: what VirtualMachine::initialize builds and loads.  *)
(***************************************************************************)
\* FONT_SET
FONT_SET ==
    << 240, 144, 144, 144, 240,   32,  96,  32,  32, 112,
       240,  16, 240, 128, 240,  240,  16, 240,  16, 240,
       144, 144, 240,  16,  16,  240, 128, 240,  16, 240,
       240, 128, 240, 144, 240,  240,  16,  32,  64,  64,
       240, 144, 240, 144, 240,  240, 144, 240,  16, 240,
       240, 144, 240, 144, 144,  224, 144, 224, 144, 224,
       240, 128, 240, 128, 240,  224, 144, 144, 144, 224,
       240, 128, 240, 128, 240,  240, 128, 240, 128, 128 >>

\* the file-loading loop of VirtualMachine::initialize: every byte read is
\* stored, and so is the zero byte of the read that hits the end of the file
loadFile(mem, file) == storeBytes(mem, PROGRAM_START, file \o <<0>>)

\* VirtualMachine::initialize: font table at 0, program image at PROGRAM_START
initialize(file) == loadFile(storeBytes(EmptyMemory, 0, FONT_SET), file)

(***************************************************************************)
(* The program images explored.  Op(a, b, c, d) is the opcode 0xabcd; an   *)
(* image holds each opcode big-endian.                                     *)
(***************************************************************************)
Op(a, b, c, d) == a * 4096 + b * 256 + c * 16 + d

RECURSIVE Image(_)
Image(words) ==
    IF words = << >> THEN << >>
    ELSE <<Head(words) \div 256, Head(words) % 256>> \o Image(Tail(words))

\* opcodes run one at a time after V0 = 0xA7, V1 = 0x33, I = 0x005, each
\* followed by two idle loops (the second for a taken skip)
OpcodeSample ==
    { Op(0,0,14,0), Op(0,0,0,0), Op(0,1,2,3), Op(0,0,15,15),
      Op(3,0,10,7), Op(3,0,0,1), Op(4,0,10,7), Op(4,1,0,0),
      Op(5,0,1,0), Op(5,2,3,0), Op(5,0,1,1),
      Op(6,4,15,15), Op(7,0,6,0), Op(7,1,0,1),
      Op(8,2,0,0), Op(8,0,1,1), Op(8,0,1,2), Op(8,0,1,3), Op(8,0,1,4),
      Op(8,1,0,5), Op(8,0,1,5), Op(8,2,0,6), Op(8,0,1,7), Op(8,2,0,14),
      Op(8,0,1,8), Op(9,0,1,0), Op(9,2,3,0), Op(9,0,1,1),
      Op(10,1,2,3), Op(12,2,15,15), Op(12,2,0,15),
      Op(13,2,3,5), Op(13,0,1,1),
      Op(14,2,9,14), Op(14,2,10,1), Op(14,0,9,14), Op(14,2,15,15),
      Op(15,2,0,7), Op(15,2,0,10), Op(15,0,1,5), Op(15,0,1,8),
      Op(15,0,1,14), Op(15,1,2,9), Op(15,0,3,3), Op(15,1,5,5),
      Op(15,1,6,5), Op(15,15,15,15) }

SamplePrograms ==
    { <<Op(6,0,10,7), Op(6,1,3,3), Op(10,0,0,5), op, Op(1,2,0,8), Op(1,2,0,10)>> :
          op \in OpcodeSample }

ScenarioPrograms ==
    { \* nested calls and returns, then idle
      <<Op(2,2,0,4), Op(1,2,0,2), Op(2,2,0,8), Op(0,0,14,14), Op(0,0,14,14)>>,
      \* unbounded recursion
      <<Op(2,2,0,0)>>,
      \* one call, two returns
      <<Op(2,2,0,4), Op(0,0,14,14), Op(0,0,14,14)>>,
      \* a return on the empty stack
      <<Op(0,0,14,14)>>,
      \* timers: V1 = 2, DT = V1, ST = V1, V2 = DT, again
      <<Op(6,1,0,2), Op(15,1,1,5), Op(15,1,1,8), Op(15,2,0,7), Op(1,2,0,6)>>,
      \* timers loaded with zero
      <<Op(15,1,1,5), Op(15,1,1,8), Op(1,2,0,4)>>,
      \* I = 0xFFF, V0 = 0xFF, I += V0
      <<Op(10,15,15,15), Op(6,0,15,15), Op(15,0,1,14), Op(1,2,0,6)>>,
      \* I = 0xFFF, store V0..V1 at I
      <<Op(10,15,15,15), Op(6,0,0,1), Op(15,1,5,5), Op(1,2,0,6)>>,
      \* I = 0xFFE, load V0..V1 from I, then jump to 0xFFE and run off
      <<Op(10,15,15,14), Op(15,1,6,5), Op(1,15,15,14)>>,
      \* jump with offset past the memory
      <<Op(6,0,15,15), Op(11,15,15,15)>>,
      \* V3 = 9, wait for a key into V3, V0 = 5
      <<Op(6,3,0,9), Op(15,3,0,10), Op(6,0,0,5), Op(1,2,0,6)>>,
      \* I = 0x203 (the byte 0xFF of the next opcode), three draws of that row
      <<Op(10,2,0,3), Op(6,0,15,15), Op(13,1,2,1), Op(13,1,2,1),
        Op(13,1,2,1), Op(1,2,0,10)>>,
      \* two rows of the font's 0 drawn at (62, 31): both coordinates wrap
      <<Op(6,0,3,14), Op(6,1,1,15), Op(13,0,1,2), Op(1,2,0,6)>> }

Programs == {Image(words) : words \in SamplePrograms \cup ScenarioPrograms}

\* the keys the host presses and releases are 0..MaxKey
MaxKey == 0

(***************************************************************************)
(* State.                                                                  *)
(***************************************************************************)
VARIABLES
    regs_,             \* CpuImpl::regs_, the RegContext
    opcode_,           \* CpuImpl::opcode_
    tick_,             \* CpuImpl::tick_
    delayTimerTick_,   \* CpuImpl::delayTimerTick_
    soundTimerTick_,   \* CpuImpl::soundTimerTick_
    memory_,           \* Memory::memory_
    framebuffer_,      \* GpuImpl::framebuffer_
    keys_,             \* KeyboardImpl::keys_
    ub,                \* an access has left its object: behaviour is undefined
    last,              \* history: the last operation and the registers before it
    calls,             \* history: the calls not yet returned from
    obs,               \* history: tick and timers at the last timer write
    wait,              \* history: the key wait an FX0A step has asked for
    twin               \* a second CpuImpl run in lockstep, and the numbers the
                       \* first one has taken from its bit generator

vars == <<regs_, opcode_, tick_, delayTimerTick_, soundTimerTick_, memory_,
          framebuffer_, keys_, ub, last, calls, obs, wait, twin>>

\* no second CPU is run
NoTwin ==
    [draws |-> << >>,
     cpu |-> [regs |-> ZeroRegs, memory |-> EmptyMemory, frame |-> EmptyMemory,
              ub |-> FALSE, draws |-> << >>]]

\* no key wait is open
NoWait == [x |-> -1, pc |-> 0, quiet |-> FALSE]

\* the machine the handlers work on
Machine ==
    [regs |-> regs_, memory |-> memory_, frame |-> framebuffer_, ub |-> ub,
     draws |-> << >>]

Before(kind) ==
    [kind |-> kind, pc |-> regs_.pc, sp |-> regs_.sp, i |-> regs_.i,
     dt |-> regs_.dt, st |-> regs_.st, tick |-> tick_]

\* CpuImpl::CpuImpl, VirtualMachine::initialize and the start of
\* VirtualMachine::start (clearFrame, reset)
Init ==
    /\ regs_ = resetRegisters(ZeroRegs)
    /\ opcode_ = 0
    /\ tick_ = 0
    /\ delayTimerTick_ = 0
    /\ soundTimerTick_ = 0
    /\ memory_ \in {initialize(file) : file \in Programs}
    /\ framebuffer_ = clearFrame(EmptyMemory)
    /\ keys_ = {}
    /\ ub = FALSE
    /\ last = [kind |-> "init", pc |-> 0, sp |-> 0, i |-> 0, dt |-> 0,
               st |-> 0, tick |-> 0]
    /\ calls = << >>
    /\ obs = [tick |-> 0, dt |-> 0, st |-> 0]
    /\ wait = NoWait
    /\ twin = NoTwin

\* the host times a step may be given: the clock does not run backwards
NowValues ==
    {now \in tick_..MaxTick :
        /\ (now - tick_) % TickStep = 0
        /\ now - tick_ <= DELAY_TIMER_TICK_DURATION}

\* one step: CpuImpl::tick(now) then CpuImpl::update()
Step(now) ==
    /\ ~ub
    /\ \E r \in update(Machine, keys_, now, delayTimerTick_, soundTimerTick_) :
          LET key == decodeInstruction(r.opcode)
          IN /\ regs_' = r.m.regs
             /\ memory_' = r.m.memory
             /\ framebuffer_' = r.m.frame
             /\ ub' = r.m.ub
             /\ opcode_' = r.opcode
             /\ calls' = IF key = OPCODE_2NNN
                         THEN Append(calls, [ret |-> U16(regs_.pc + 2),
                                             sp |-> regs_.sp])
                         ELSE IF key = OPCODE_00EE /\ calls # << >>
                         THEN SubSeq(calls, 1, Len(calls) - 1)
                         ELSE calls
             /\ obs' = IF key \in {OPCODE_FX15, OPCODE_FX18}
                       THEN [tick |-> now, dt |-> r.m.regs.dt, st |-> r.m.regs.st]
                       ELSE obs
             /\ wait' = IF wait.x # -1
                         THEN (IF keys_ # {} THEN NoWait ELSE wait)
                         ELSE IF key = OPCODE_FX0A
                         THEN [x |-> splitX(r.opcode).x,
                               pc |-> U16(regs_.pc + PC_INCR),
                               quiet |-> keys_ = {}]
                         ELSE wait
    /\ tick_' = now
    /\ UNCHANGED twin
    /\ last' = Before("update")
    /\ UNCHANGED <<delayTimerTick_, soundTimerTick_, keys_>>

\* CpuImpl::reset
Reset ==
    /\ ~ub
    /\ regs_' = resetRegisters(regs_)
    /\ UNCHANGED twin
    /\ last' = Before("reset")
    /\ calls' = << >>
    /\ obs' = [tick |-> tick_, dt |-> 0, st |-> 0]
    /\ wait' = NoWait
    /\ UNCHANGED <<opcode_, tick_, delayTimerTick_, soundTimerTick_, memory_,
                   framebuffer_, keys_, ub>>

\* KeyboardImpl::update on an SDL_KEYDOWN event of a mapped key
PressKey(k) ==
    /\ k \notin keys_
    /\ keys_' = keys_ \cup {k}
    /\ UNCHANGED twin
    /\ last' = Before("key")
    /\ UNCHANGED <<regs_, opcode_, tick_, delayTimerTick_, soundTimerTick_,
                   memory_, framebuffer_, ub, calls, obs, wait>>

\* KeyboardImpl::update on an SDL_KEYUP event of a mapped key
ReleaseKey(k) ==
    /\ k \in keys_
    /\ keys_' = keys_ \ {k}
    /\ UNCHANGED twin
    /\ last' = Before("key")
    /\ UNCHANGED <<regs_, opcode_, tick_, delayTimerTick_, soundTimerTick_,
                   memory_, framebuffer_, ub, calls, obs, wait>>

Next ==
    \/ \E now \in NowValues : Step(now)
    \/ Reset
    \/ \E k \in 0..MaxKey : PressKey(k)
    \/ \E k \in 0..MaxKey : ReleaseKey(k)

Spec == Init /\ [][Next]_vars

(***************************************************************************)
(* The register arithmetic on its own: V0, V1 and VF are loaded with every *)
(* combination of AluBytes, then one 8XYK runs on a pair of them, at a     *)
(* host time that stands still.                                            *)
(***************************************************************************)
AluBytes == {0, 1, 128, 255}
AluRegisters == {0, 1, 15}
AluKinds == {4, 5, 6, 7, 14}

AluPrograms ==
    { Image(<<Op(6,0,0,0) + a, Op(6,1,0,0) + b, Op(6,15,0,0) + f,
              Op(8,x,y,k), Op(1,2,0,8)>>) :
        <<a, b, f, x, y, k>> \in AluBytes \X AluBytes \X AluBytes
                                \X AluRegisters \X AluRegisters \X AluKinds }

InitAlu ==
    /\ regs_ = resetRegisters(ZeroRegs)
    /\ opcode_ = 0
    /\ tick_ = 0
    /\ delayTimerTick_ = 0
    /\ soundTimerTick_ = 0
    /\ memory_ \in {initialize(file) : file \in AluPrograms}
    /\ framebuffer_ = clearFrame(EmptyMemory)
    /\ keys_ = {}
    /\ ub = FALSE
    /\ last = [kind |-> "init", pc |-> 0, sp |-> 0, i |-> 0, dt |-> 0,
               st |-> 0, tick |-> 0]
    /\ calls = << >>
    /\ obs = [tick |-> 0, dt |-> 0, st |-> 0]
    /\ wait = NoWait
    /\ twin = NoTwin

NextAlu == Step(0)

SpecAlu == InitAlu /\ [][NextAlu]_vars

(***************************************************************************)
(* The memory's bulk word store and the opcode codec on their own: from    *)
(* the constructed machine one word list is stored and read back, or one   *)
(* opcode is classified, or one operand tuple is encoded and decoded.      *)
(* last records the call and its arguments.                                *)
(***************************************************************************)
\* the longest word list stored
MaxWords == 2

\* the words stored: each byte pattern that tells the two byte orders apart
StoredWords == {0, 224, 255, 4660, 43981, 65280, 65535}

WordLists ==
    UNION {[1..n -> StoredWords] : n \in 1..MaxWords}

\* the start addresses: the program start and the last words of the memory
StartAddresses == {PROGRAM_START, MEMORY_SIZE - 2 * MaxWords}

Endians == {"LITTLE", "BIG"}

\* the instructions of each operand shape (enum OpcodeEncoding)
ShapeInstructions ==
    [X |-> {OPCODE_EX9E, OPCODE_EXA1, OPCODE_FX07, OPCODE_FX0A, OPCODE_FX15,
            OPCODE_FX18, OPCODE_FX1E, OPCODE_FX29, OPCODE_FX33, OPCODE_FX55,
            OPCODE_FX65},
     XKK |-> {OPCODE_3XKK, OPCODE_4XKK, OPCODE_6XKK, OPCODE_7XKK, OPCODE_CXKK},
     XY |-> {OPCODE_5XY0, OPCODE_8XY0, OPCODE_8XY1, OPCODE_8XY2, OPCODE_8XY3,
             OPCODE_8XY4, OPCODE_8XY5, OPCODE_8XY6, OPCODE_8XY7, OPCODE_8XYE,
             OPCODE_9XY0},
     XYN |-> {OPCODE_DXYN},
     NNN |-> {OPCODE_1NNN, OPCODE_2NNN, OPCODE_ANNN, OPCODE_BNNN}]

\* the in-range operand tuples of each shape
ShapeOperands ==
    [X |-> [x : 0..15],
     XKK |-> [x : 0..15, kk : 0..255],
     XY |-> [x : 0..15, y : 0..15],
     XYN |-> [x : 0..15, y : 0..15, n : 0..15],
     NNN |-> [nnn : 0..4095]]

Shapes == {"X", "XKK", "XY", "XYN", "NNN"}

\* every 16-bit opcode
Opcodes == 0..65535

InitCodec ==
    /\ regs_ = resetRegisters(ZeroRegs)
    /\ opcode_ = 0
    /\ tick_ = 0
    /\ delayTimerTick_ = 0
    /\ soundTimerTick_ = 0
    /\ memory_ = EmptyMemory
    /\ framebuffer_ = clearFrame(EmptyMemory)
    /\ keys_ = {}
    /\ ub = FALSE
    /\ last = [kind |-> "init"]
    /\ calls = << >>
    /\ obs = [tick |-> 0, dt |-> 0, st |-> 0]
    /\ wait = NoWait
    /\ twin = NoTwin

\* Memory::storeBuffer(startAddress, buffer, endian) on the fresh memory
StoreBuffer(startAddress, buffer, endian) ==
    /\ last.kind = "init"
    /\ memory_' = storeWords(memory_, startAddress, buffer, endian)
    /\ UNCHANGED twin
    /\ last' = [kind |-> "storeBuffer", startAddress |-> startAddress,
                buffer |-> buffer, endian |-> endian]
    /\ UNCHANGED <<regs_, opcode_, tick_, delayTimerTick_, soundTimerTick_,
                   framebuffer_, keys_, ub, calls, obs, wait>>

\* Memory::load<uint16_t>(startAddress + 2 * index) after a bulk store, as
\* the fetch of CpuImpl::update does it
LoadWord(index) ==
    /\ last.kind = "storeBuffer"
    /\ index < Len(last.buffer)
    /\ opcode_' \in load16Set(memory_, last.startAddress + 2 * index)
    /\ UNCHANGED twin
    /\ last' = [kind |-> "load", startAddress |-> last.startAddress,
                buffer |-> last.buffer, endian |-> last.endian,
                index |-> index]
    /\ UNCHANGED <<regs_, tick_, delayTimerTick_, soundTimerTick_, memory_,
                   framebuffer_, keys_, ub, calls, obs, wait>>

\* opcode::decodeInstruction(opcode)
DecodeInstruction(opcode) ==
    /\ last.kind = "init"
    /\ opcode_' = opcode
    /\ UNCHANGED twin
    /\ last' = [kind |-> "decodeInstruction",
                instruction |-> decodeInstruction(opcode)]
    /\ UNCHANGED <<regs_, tick_, delayTimerTick_, soundTimerTick_, memory_,
                   framebuffer_, keys_, ub, calls, obs, wait>>

\* opcode::encodeNXXX(operands)
Encode(shape, instruction, op) ==
    /\ last.kind = "init"
    /\ opcode_' = encode(instruction, shape, op)
    /\ UNCHANGED twin
    /\ last' = [kind |-> "encode", shape |-> shape,
                instruction |-> instruction, op |-> op]
    /\ UNCHANGED <<regs_, tick_, delayTimerTick_, soundTimerTick_, memory_,
                   framebuffer_, keys_, ub, calls, obs, wait>>

\* opcode::decodeNXXX(opcode) on the opcode just encoded
Decode ==
    /\ last.kind = "encode"
    /\ UNCHANGED twin
    /\ last' = [kind |-> "decode", shape |-> last.shape,
                instruction |-> last.instruction, op |-> last.op,
                decoded |-> decodeOperands(last.shape, opcode_)]
    /\ UNCHANGED <<regs_, opcode_, tick_, delayTimerTick_, soundTimerTick_,
                   memory_, framebuffer_, keys_, ub, calls, obs, wait>>

\* the guards are tested before the inputs are drawn
NextCodec ==
    \/ /\ last.kind = "init"
       /\ \E startAddress \in StartAddresses, buffer \in WordLists,
             endian \in Endians : StoreBuffer(startAddress, buffer, endian)
    \/ /\ last.kind = "storeBuffer"
       /\ \E index \in 0..(MaxWords - 1) : LoadWord(index)
    \/ /\ last.kind = "init"
       /\ \E opcode \in Opcodes : DecodeInstruction(opcode)
    \/ /\ last.kind = "init"
       /\ \E shape \in Shapes :
             \E instruction \in ShapeInstructions[shape],
                op \in ShapeOperands[shape] : Encode(shape, instruction, op)
    \/ Decode

SpecCodec == InitCodec /\ [][NextCodec]_vars

(***************************************************************************)
(* The instructions that work through I on their own: V0 is loaded with    *)
(* every byte, V1 and VF with fixed bytes, I with an address, then one of  *)
(* FX29, FX33 and FX55 runs, at a host time that stands still.             *)
(***************************************************************************)
\* the addresses loaded into I: free memory, and the last 16 bytes
IndexAddresses == {768, MEMORY_SIZE - REG_COUNT}

\* FX29 and FX33 on V0; FX55 up to V0, V1 and VF
IndexOpcodes ==
    {Op(15,0,2,9), Op(15,0,3,3), Op(15,0,5,5), Op(15,1,5,5), Op(15,15,5,5)}

\* FX65 up to V0, V1 and VF, reading the font table or the program itself
IndexLoadAddresses == {0, PROGRAM_START}
IndexLoadOpcodes == {Op(15,0,6,5), Op(15,1,6,5), Op(15,15,6,5)}

IndexPrograms ==
    { Image(<<Op(6,0,0,0) + v, Op(6,1,3,12), Op(6,15,12,3),
              Op(10,0,0,0) + i, op, Op(1,2,0,10)>>) :
        <<v, i, op>> \in ((0..255) \X IndexAddresses \X IndexOpcodes)
                         \cup ((0..255) \X IndexLoadAddresses
                                        \X IndexLoadOpcodes) }

InitIndex ==
    /\ regs_ = resetRegisters(ZeroRegs)
    /\ opcode_ = 0
    /\ tick_ = 0
    /\ delayTimerTick_ = 0
    /\ soundTimerTick_ = 0
    /\ memory_ \in {initialize(file) : file \in IndexPrograms}
    /\ framebuffer_ = clearFrame(EmptyMemory)
    /\ keys_ = {}
    /\ ub = FALSE
    /\ last = [kind |-> "init", pc |-> 0, sp |-> 0, i |-> 0, dt |-> 0,
               st |-> 0, tick |-> 0]
    /\ calls = << >>
    /\ obs = [tick |-> 0, dt |-> 0, st |-> 0]
    /\ wait = NoWait
    /\ twin = NoTwin

NextIndex == Step(0)

SpecIndex == InitIndex /\ [][NextIndex]_vars

(***************************************************************************)
(* Drawing on a framebuffer that already holds pixels: I, V0 and V1 are    *)
(* loaded, a first sprite may be drawn, then the same DXYN runs twice and  *)
(* 00E0 clears the display.                                                *)
(***************************************************************************)
DrawSpriteAddresses == {0, 75, PROGRAM_START}
DrawColumns == {0, 60, 255}
DrawRows == {0, 29, 255}
DrawPrior == {Op(6,2,0,0), Op(13,0,1,5), Op(13,1,0,5)}
DrawOpcodes == {Op(13,0,1,1), Op(13,0,1,5), Op(13,0,1,15)}

DrawPrograms ==
    { Image(<<Op(10,0,0,0) + i, Op(6,0,0,0) + x, Op(6,1,0,0) + y, prior,
              op, op, Op(0,0,14,0), Op(1,2,0,14)>>) :
        <<i, x, y, prior, op>> \in DrawSpriteAddresses \X DrawColumns \X DrawRows
                                   \X DrawPrior \X DrawOpcodes }

InitDraw ==
    /\ regs_ = resetRegisters(ZeroRegs)
    /\ opcode_ = 0
    /\ tick_ = 0
    /\ delayTimerTick_ = 0
    /\ soundTimerTick_ = 0
    /\ memory_ \in {initialize(file) : file \in DrawPrograms}
    /\ framebuffer_ = clearFrame(EmptyMemory)
    /\ keys_ = {}
    /\ ub = FALSE
    /\ last = [kind |-> "init", pc |-> 0, sp |-> 0, i |-> 0, dt |-> 0,
               st |-> 0, tick |-> 0]
    /\ calls = << >>
    /\ obs = [tick |-> 0, dt |-> 0, st |-> 0]
    /\ wait = NoWait
    /\ twin = NoTwin

NextDraw == Step(0)

SpecDraw == InitDraw /\ [][NextDraw]_vars

(***************************************************************************)
(* Loading a program file: the machine is constructed with the font table  *)
(* in memory, VirtualMachine::loadFile stores the file, then the program   *)
(* runs.  last records the file and the addresses the loop passed to       *)
(* Memory::store.                                                          *)
(***************************************************************************)
\* the largest image the memory holds from PROGRAM_START
MaxFileSize == MEMORY_SIZE - PROGRAM_START

\* a file of n bytes: a jump to itself, then filler
FilledFile(n) == [k \in 1..n |-> IF k = 1 THEN 18 ELSE IF k = 2 THEN 0 ELSE 255]

LoadFiles ==
    DrawPrograms \cup {<< >>, FilledFile(MaxFileSize - 1), FilledFile(MaxFileSize)}

\* the addresses the do-while loop of loadFile passes to Memory::store: one
\* per byte read and one for the read that returns no byte
loadFileStores(file) == {PROGRAM_START + k : k \in 0..Len(file)}

InitLoad ==
    /\ regs_ = resetRegisters(ZeroRegs)
    /\ opcode_ = 0
    /\ tick_ = 0
    /\ delayTimerTick_ = 0
    /\ soundTimerTick_ = 0
    /\ memory_ = storeBytes(EmptyMemory, 0, FONT_SET)
    /\ framebuffer_ = clearFrame(EmptyMemory)
    /\ keys_ = {}
    /\ ub = FALSE
    /\ last = [kind |-> "init", pc |-> 0, sp |-> 0, i |-> 0, dt |-> 0,
               st |-> 0, tick |-> 0]
    /\ calls = << >>
    /\ obs = [tick |-> 0, dt |-> 0, st |-> 0]
    /\ wait = NoWait
    /\ twin = NoTwin

\* VirtualMachine::loadFile
LoadFile(file) ==
    /\ memory_' = loadFile(memory_, file)
    /\ ub' = \E address \in loadFileStores(file) : ~InMemory(address)
    /\ UNCHANGED twin
    /\ last' = [kind |-> "loadFile", pc |-> regs_.pc, sp |-> regs_.sp,
                i |-> regs_.i, dt |-> regs_.dt, st |-> regs_.st,
                tick |-> tick_, file |-> file,
                stored |-> loadFileStores(file)]
    /\ UNCHANGED <<regs_, opcode_, tick_, delayTimerTick_, soundTimerTick_,
                   framebuffer_, keys_, calls, obs, wait>>

NextLoad ==
    \/ /\ last.kind = "init"
       /\ \E file \in LoadFiles : LoadFile(file)
    \/ /\ last.kind # "init"
       /\ Step(0)

SpecLoad == InitLoad /\ [][NextLoad]_vars

(***************************************************************************)
(* The host loop of VirtualMachine::start: every iteration gives the CPU   *)
(* the host time, runs one update, runs updateTimer once more and polls    *)
(* the keyboard.                                                           *)
(***************************************************************************)
HostTimerValues == {0, 1, 2, 5, 255}

\* V1 = v, DT = V1, ST = V1, V2 = DT, again
HostPrograms ==
    { Image(<<Op(6,1,0,0) + v, Op(15,1,1,5), Op(15,1,1,8), Op(15,2,0,7),
              Op(1,2,0,6)>>) : v \in HostTimerValues }

InitHost ==
    /\ regs_ = resetRegisters(ZeroRegs)
    /\ opcode_ = 0
    /\ tick_ = 0
    /\ delayTimerTick_ = 0
    /\ soundTimerTick_ = 0
    /\ memory_ \in {initialize(file) : file \in HostPrograms}
    /\ framebuffer_ = clearFrame(EmptyMemory)
    /\ keys_ = {}
    /\ ub = FALSE
    /\ last = [kind |-> "init", pc |-> 0, sp |-> 0, i |-> 0, dt |-> 0,
               st |-> 0, tick |-> 0]
    /\ calls = << >>
    /\ obs = [tick |-> 0, dt |-> 0, st |-> 0]
    /\ wait = NoWait
    /\ twin = NoTwin

\* one iteration of the loop of VirtualMachine::start, up to the keyboard
\* poll: debugger_->tick(now), debugger_->update(), debugger_->updateTimer()
HostIteration(now) ==
    /\ ~ub
    /\ \E r \in update(Machine, keys_, now, delayTimerTick_, soundTimerTick_) :
          /\ regs_' = updateTimer(r.m.regs, now, delayTimerTick_, soundTimerTick_)
          /\ memory_' = r.m.memory
          /\ framebuffer_' = r.m.frame
          /\ ub' = r.m.ub
          /\ opcode_' = r.opcode
    /\ tick_' = now
    /\ UNCHANGED twin
    /\ last' = Before("iteration")
    /\ UNCHANGED <<delayTimerTick_, soundTimerTick_, keys_, calls, obs, wait>>

NextHost ==
    \/ \E now \in NowValues : HostIteration(now)
    \/ \E k \in 0..MaxKey : PressKey(k)
    \/ \E k \in 0..MaxKey : ReleaseKey(k)

SpecHost == InitHost /\ [][NextHost]_vars

(***************************************************************************)
(* Two CPUs in lockstep: both are constructed the same way on the same     *)
(* memory image, and every step gives both the same host time and the same *)
(* keyboard state.  Each CPU has its own registers, memory, framebuffer    *)
(* and bit generator; twin.cpu is the second CPU, twin.draws the numbers   *)
(* the first has taken from its generator.  tick_, delayTimerTick_ and     *)
(* soundTimerTick_ receive the same values in both and are kept once.      *)
(***************************************************************************)
\* steps are taken while the first CPU has drawn at most MaxDraws numbers
MaxDraws == 3

\* I = 0, V0 = rnd, V1 = rnd & 0x0F, DT = V0, V0 += V1, store V0..V1 at I
\* (I moves on by 2), draw the five rows at I at (V0, V1), V2 = DT, skip if
\* key V1 is down, again from the first CXKK
TwinPrograms ==
    { Image(<<Op(10,0,0,0), Op(12,0,15,15), Op(12,1,0,15), Op(15,0,1,5),
              Op(8,0,1,4), Op(15,1,5,5), Op(13,0,1,5), Op(15,2,0,7),
              Op(14,1,9,14), Op(1,2,0,2), Op(1,2,0,2)>>) }

\* std::mt19937's default constructor seeds every generator alike: two
\* generators give the same number at the same position of their streams
SameStream(draws, others) ==
    \A k \in 1..Len(draws) : k <= Len(others) => draws[k] = others[k]

InitTwin ==
    /\ regs_ = resetRegisters(ZeroRegs)
    /\ opcode_ = 0
    /\ tick_ = 0
    /\ delayTimerTick_ = 0
    /\ soundTimerTick_ = 0
    /\ memory_ \in {initialize(file) : file \in TwinPrograms}
    /\ framebuffer_ = clearFrame(EmptyMemory)
    /\ keys_ = {}
    /\ ub = FALSE
    /\ last = [kind |-> "init", pc |-> 0, sp |-> 0, i |-> 0, dt |-> 0,
               st |-> 0, tick |-> 0]
    /\ calls = << >>
    /\ obs = [tick |-> 0, dt |-> 0, st |-> 0]
    /\ wait = NoWait
    /\ twin = [draws |-> << >>,
               cpu |-> [regs |-> resetRegisters(ZeroRegs), memory |-> memory_,
                        frame |-> clearFrame(EmptyMemory), ub |-> FALSE,
                        draws |-> << >>]]

\* CpuImpl::tick(now) and CpuImpl::update() on each of the two CPUs
TwinStep(now) ==
    /\ ~ub
    /\ ~twin.cpu.ub
    /\ Len(twin.draws) <= MaxDraws
    /\ \E r \in update([Machine EXCEPT !.draws = twin.draws], keys_, now,
                       delayTimerTick_, soundTimerTick_),
          other \in update(twin.cpu, keys_, now, delayTimerTick_, soundTimerTick_) :
          /\ SameStream(r.m.draws, other.m.draws)
          /\ SameStream(other.m.draws, r.m.draws)
          /\ regs_' = r.m.regs
          /\ memory_' = r.m.memory
          /\ framebuffer_' = r.m.frame
          /\ ub' = r.m.ub
          /\ opcode_' = r.opcode
          /\ twin' = [draws |-> r.m.draws, cpu |-> other.m]
    /\ tick_' = now
    /\ last' = Before("twinUpdate")
    /\ UNCHANGED <<delayTimerTick_, soundTimerTick_, keys_, calls, obs, wait>>

NextTwin ==
    \/ \E now \in NowValues : TwinStep(now)
    \/ \E k \in 0..MaxKey : PressKey(k)
    \/ \E k \in 0..MaxKey : ReleaseKey(k)

SpecTwin == InitTwin /\ [][NextTwin]_vars

(***************************************************************************)
(* Properties.  A transition is a step when it records "update" in last;   *)
(* Key is the canonical key of the opcode that step fetched.               *)
(***************************************************************************)
IsStep == last'.kind = "update"
Key == decodeInstruction(opcode_')
StepDone == last.kind = "update"
DoneKey == decodeInstruction(opcode_)

\* operand fields of the fetched opcode, by position
NibbleX == (opcode_' \div 256) % 16
NibbleY == (opcode_' \div 16) % 16
ByteKK == opcode_' % 256
AddrNNN == opcode_' % 4096

\* the word at address, high byte first
WordAt(mem, address) == 256 * load8(mem, address) + load8(mem, address + 1)

\* the step's opcode is a skip whose condition holds (or, for a key index
\* past the key array, may hold) in the state before the step
TakenSkip ==
    \/ Key = OPCODE_3XKK /\ regs_.vx[NibbleX] = ByteKK
    \/ Key = OPCODE_4XKK /\ regs_.vx[NibbleX] # ByteKK
    \/ Key = OPCODE_5XY0 /\ regs_.vx[NibbleX] = regs_.vx[NibbleY]
    \/ Key = OPCODE_9XY0 /\ regs_.vx[NibbleX] # regs_.vx[NibbleY]
    \/ Key = OPCODE_EX9E /\ (regs_.vx[NibbleX] \in keys_
                             \/ regs_.vx[NibbleX] >= KEY_COUNT)
    \/ Key = OPCODE_EXA1 /\ (regs_.vx[NibbleX] \notin keys_
                             \/ regs_.vx[NibbleX] >= KEY_COUNT)

\* C1: a step whose opcode is not a jump (1NNN, BNNN), a call, a return, a
\* taken skip or FX0A - unknown opcodes included - ends with PC = the
\* pre-fetch PC + 2, and the opcode it ran is the big-endian word at the
\* pre-fetch PC.
C1_NonBranchingAdvancesPC ==
    [][ (IsStep
         /\ Key \notin {OPCODE_1NNN, OPCODE_BNNN, OPCODE_2NNN, OPCODE_00EE,
                        OPCODE_FX0A}
         /\ ~TakenSkip)
        => /\ regs_'.pc = U16(regs_.pc + 2)
           /\ (regs_.pc + 1 < MEMORY_SIZE
                  => opcode_' = WordAt(memory_, regs_.pc)) ]_vars

\* an unknown opcode (0x8018, stored as 80 18) has run and PC moved on by 2
C1_Witness ==
    /\ StepDone
    /\ opcode_ = Op(8,0,1,8)
    /\ load8(memory_, last.pc) = 128 /\ load8(memory_, last.pc + 1) = 24
    /\ regs_.pc = last.pc + 2

\* C2: 2NNN at address a with SP = s < 16 stores a + 2 in stack[s], sets SP
\* to s + 1 and PC to NNN, and changes no other stack slot, no V register,
\* not I, not the memory and not the framebuffer.
C2_CallPushes ==
    [][ (IsStep /\ Key = OPCODE_2NNN /\ regs_.sp < STACK_SIZE)
        => /\ regs_'.stack = [regs_.stack EXCEPT ![regs_.sp] = U16(regs_.pc + 2)]
           /\ regs_'.sp = regs_.sp + 1
           /\ regs_'.pc = AddrNNN
           /\ regs_'.vx = regs_.vx
           /\ regs_'.i = regs_.i
           /\ memory_' = memory_
           /\ framebuffer_' = framebuffer_ ]_vars

\* a call at SP = 1 has pushed its return address into stack[1]
C2_Witness ==
    /\ StepDone /\ DoneKey = OPCODE_2NNN
    /\ last.sp = 1 /\ regs_.sp = 2
    /\ regs_.stack[1] = last.pc + 2
    /\ regs_.pc = opcode_ % 4096

\* C3: while the call depth has never exceeded 16, a 00EE executed with
\* SP > 0 sets PC to the address following the most recent 2NNN not yet
\* returned from, and SP to the value it had before that call.
C3_CallReturnLifo ==
    [][ (IsStep /\ Key = OPCODE_00EE /\ regs_.sp > 0)
        => /\ calls # << >>
           /\ regs_'.pc = calls[Len(calls)].ret
           /\ regs_'.sp = calls[Len(calls)].sp ]_vars

\* the inner of two nested calls has returned: one call is still open
C3_Witness ==
    /\ StepDone /\ DoneKey = OPCODE_00EE
    /\ last.sp = 2 /\ regs_.sp = 1
    /\ Len(calls) = 1
    /\ regs_.pc # calls[1].ret

\* C4: 00EE executed with SP = 0 is a no-op: SP stays 0 and PC keeps its
\* post-fetch value.
C4_ReturnOnEmptyStackIsNoOp ==
    [][ (IsStep /\ Key = OPCODE_00EE /\ regs_.sp = 0)
        => /\ regs_'.sp = 0
           /\ regs_'.pc = U16(regs_.pc + 2) ]_vars

\* C5: 2NNN executed with SP = 16 drops the push: SP stays 16, no stack slot
\* changes and nothing outside the stack is written.
C5_CallOnFullStackDropsPush ==
    [][ (IsStep /\ Key = OPCODE_2NNN /\ regs_.sp = STACK_SIZE)
        => /\ regs_'.sp = STACK_SIZE
           /\ regs_'.stack = regs_.stack
           /\ regs_'.i = regs_.i
           /\ regs_'.vx = regs_.vx
           /\ ~ub' ]_vars

\* C6: in every reachable state 0 <= SP <= 16.
C6_StackPointerInRange == regs_.sp \in 0..STACK_SIZE

\* C7: in every reachable state I < 4096.
C7_IndexRegisterIs12Bit == regs_.i < 4096

\* C8: since the last FX15, FX18 or reset, DT and ST have each decreased by
\* at most floor(dt * 60 / 1000), dt the host time elapsed since then.
C8_TimersFollowHostTime ==
    /\ obs.dt - regs_.dt <= ((tick_ - obs.tick) * 60) \div 1000
    /\ obs.st - regs_.st <= ((tick_ - obs.tick) * 60) \div 1000

\* C9: in a step that is not FX15 or FX18, and between steps, DT and ST do
\* not increase, and a timer that is 0 stays 0.
C9_TimersOnlyCountDown ==
    [][ (last'.kind # "reset" /\ ~(IsStep /\ Key \in {OPCODE_FX15, OPCODE_FX18}))
        => /\ regs_'.dt <= regs_.dt
           /\ regs_'.st <= regs_.st
           /\ (regs_.dt = 0 => regs_'.dt = 0)
           /\ (regs_.st = 0 => regs_'.st = 0) ]_vars

\* a step with a decrement due has run while DT was 0, and DT is still 0
C9_Witness ==
    /\ StepDone
    /\ DoneKey \notin {OPCODE_FX15, OPCODE_FX18}
    /\ TimerDue(tick_, delayTimerTick_, DELAY_TIMER_TICK_DURATION)
    /\ last.dt = 0 /\ regs_.dt = 0
    /\ last.st > 0 /\ regs_.st = last.st - 1

\* C10: the timers are advanced after the instruction body: FX07 copies the
\* DT of before the step into V[x]; FX15 with V[x] > 0 ends with
\* DT = V[x] - 1 when a decrement is due and with DT = V[x] when none is;
\* FX18 ends with ST = V[x] when none is due.
C10_TimersAfterInstruction ==
    [][ IsStep
        => LET dueDT == TimerDue(tick_', delayTimerTick_, DELAY_TIMER_TICK_DURATION)
               dueST == TimerDue(tick_', soundTimerTick_, SOUND_TIMER_TICK_DURATION)
           IN /\ (Key = OPCODE_FX07 => regs_'.vx[NibbleX] = regs_.dt)
              /\ (Key = OPCODE_FX15 /\ dueDT /\ regs_.vx[NibbleX] > 0
                     => regs_'.dt = regs_.vx[NibbleX] - 1)
              /\ (Key = OPCODE_FX15 /\ ~dueDT
                     => regs_'.dt = regs_.vx[NibbleX])
              /\ (Key = OPCODE_FX18 /\ ~dueST
                     => regs_'.st = regs_.vx[NibbleX]) ]_vars

\* FX07 has run in a step with a decrement due and a running DT: V[x] holds
\* the DT of before the step, DT is one less
C10_Witness ==
    /\ StepDone /\ DoneKey = OPCODE_FX07
    /\ TimerDue(tick_, delayTimerTick_, DELAY_TIMER_TICK_DURATION)
    /\ last.dt > 0
    /\ regs_.vx[(opcode_ \div 256) % 16] = last.dt
    /\ regs_.dt = last.dt - 1

\* the lowest-numbered key of a non-empty set of pressed keys
LowestKey(keys) == CHOOSE k \in keys : \A j \in keys : k <= j

\* C11: once an FX0A has run with no key pressed, a step taken while still
\* no key is pressed fetches no instruction and leaves PC and all V registers
\* unchanged.
C11_KeyWaitSuspends ==
    [][ (IsStep /\ wait.x # -1 /\ wait.quiet /\ keys_ = {})
        => /\ opcode_' = opcode_
           /\ regs_'.pc = regs_.pc
           /\ regs_'.vx = regs_.vx ]_vars

\* C12: while an FX0A targeting Vx is waiting, the first step with a key
\* pressed writes the lowest-numbered pressed key into V[x] and leaves PC at
\* the instruction after the FX0A.
C12_KeyWaitResolves ==
    [][ (IsStep /\ wait.x # -1 /\ keys_ # {})
        => /\ regs_'.vx[wait.x] = LowestKey(keys_)
           /\ regs_'.pc = wait.pc ]_vars

\* the pixel of frame at a linear address is lit
Lit(frame, address) == load8(frame, address) # 0

\* some pixel lit in frame before is unlit in frame after
ClearedLitPixel(before, after) ==
    \E a \in DOMAIN before : Lit(before, a) /\ ~Lit(after, a)

\* C13: every DXYN step writes VF: 1 if the draw cleared a lit pixel, 0
\* otherwise, whatever VF held before.
C13_DrawAlwaysWritesVF ==
    [][ (IsStep /\ Key = OPCODE_DXYN)
        => regs_'.vx[15] = IF ClearedLitPixel(framebuffer_, framebuffer_')
                           THEN 1 ELSE 0 ]_vars

\* C14: drawSprite returns true iff some pixel lit before the draw is unlit
\* after it (so a draw onto unlit pixels returns false); checked on the
\* arguments every DXYN step passes.
C14_CollisionIffLitPixelCleared ==
    [][ (IsStep /\ Key = OPCODE_DXYN)
        => \A sprite \in loadSprite(memory_, regs_.i, opcode_' % 16) :
              LET g == drawSprite(framebuffer_, regs_.vx[NibbleX],
                                  regs_.vx[NibbleY], sprite)
              IN g.erased <=> ClearedLitPixel(framebuffer_, g.frame) ]_vars

\* the linear addresses of the pixels a DXYN with the registers regs and the
\* sprite rows at memory[I..I+n) toggles: ((X + c) mod 64, (Y + r) mod 32) for
\* every set bit 7 - c of row r
Toggled(mem, regs, x, y, n) ==
    { DISPLAY_WIDTH * ((regs.vx[y] + r) % DISPLAY_HEIGHT)
          + ((regs.vx[x] + c) % DISPLAY_WIDTH) :
        <<r, c>> \in { rc \in (0..(n - 1)) \X (0..7) :
                          (load8(mem, regs.i + rc[1]) \div (2 ^ (7 - rc[2]))) % 2 = 1 } }

\* C15: a DXYN whose n rows lie in memory XORs bit 7 - c of row r into the
\* pixel ((X + c) mod 64, (Y + r) mod 32) and changes no other pixel: the
\* lit pixels after the step are those lit before or toggled, not both (no
\* pixel is toggled twice, n < 16), and a lit pixel holds 0xFF.
C15_DrawXorsSpriteIntoFrame ==
    [][ (IsStep /\ Key = OPCODE_DXYN /\ ~ub')
        => LET t == Toggled(memory_, regs_, NibbleX, NibbleY, opcode_' % 16)
               before == DOMAIN framebuffer_
           IN /\ DOMAIN framebuffer_' = (before \ t) \cup (t \ before)
              /\ \A a \in DOMAIN framebuffer_' :
                    /\ a < DISPLAY_WIDTH * DISPLAY_HEIGHT
                    /\ framebuffer_'[a] = 255 ]_vars

\* rows F0, 90 have been drawn at (62, 31): row 0 lands in line 31 at columns
\* 62, 63, 0, 1 and row 1 in line 0 at columns 62 and 1
C15_Witness ==
    /\ StepDone /\ DoneKey = OPCODE_DXYN /\ ~ub
    /\ regs_.vx[0] = 62 /\ regs_.vx[1] = 31
    /\ DOMAIN framebuffer_ = {1984, 1985, 2046, 2047, 1, 62}

\* the operands of the 8XYK the step runs, read before the step
OperandA == regs_.vx[NibbleX]
OperandB == regs_.vx[NibbleY]

\* C16 as stated: for all x, y in 0..15, after 8XY4 V[x] = (a + b) & 0xFF and
\* V[0xF] = 1 if a + b > 0xFF, else 0.
C16_AddForAllRegisters ==
    [][ (IsStep /\ Key = OPCODE_8XY4)
        => /\ regs_'.vx[NibbleX] = (OperandA + OperandB) % 256
           /\ regs_'.vx[15] = IF OperandA + OperandB > 255 THEN 1 ELSE 0 ]_vars

\* C16 amended: after 8XY4 V[x] = (a + b) & 0xFF for every x, and for x other
\* than 0xF V[0xF] is the carry; with x = 0xF the sum replaces the carry.
C16_AddCarry ==
    [][ (IsStep /\ Key = OPCODE_8XY4)
        => /\ regs_'.vx[NibbleX] = (OperandA + OperandB) % 256
           /\ (NibbleX # 15
                  => regs_'.vx[15] = IF OperandA + OperandB > 255 THEN 1 ELSE 0) ]_vars

\* 8014 has added 0xFF and 0x01: V0 = 0x00, the carry is in VF
C16_Witness ==
    /\ StepDone /\ opcode_ = Op(8,0,1,4)
    /\ regs_.vx[0] = 0 /\ regs_.vx[1] = 1 /\ regs_.vx[15] = 1

\* C17 as stated: for all x, y in 0..15, after 8XY5 V[0xF] = 1 iff a > b and
\* V[x] = (a - b) & 0xFF; after 8XY7 V[0xF] = 1 iff b > a and
\* V[x] = (b - a) & 0xFF.
C17_SubForAllRegisters ==
    [][ IsStep
        => /\ (Key = OPCODE_8XY5
                  => /\ regs_'.vx[NibbleX] = (OperandA - OperandB + 256) % 256
                     /\ regs_'.vx[15] = IF OperandA > OperandB THEN 1 ELSE 0)
           /\ (Key = OPCODE_8XY7
                  => /\ regs_'.vx[NibbleX] = (OperandB - OperandA + 256) % 256
                     /\ regs_'.vx[15] = IF OperandB > OperandA THEN 1 ELSE 0) ]_vars

\* C17 amended: V[x] is the difference for every x, and for x other than 0xF
\* V[0xF] is the strict comparison; with x = 0xF the difference replaces it.
C17_SubStrictFlag ==
    [][ IsStep
        => /\ (Key = OPCODE_8XY5
                  => /\ regs_'.vx[NibbleX] = (OperandA - OperandB + 256) % 256
                     /\ (NibbleX # 15 =>
                            regs_'.vx[15] = IF OperandA > OperandB THEN 1 ELSE 0))
           /\ (Key = OPCODE_8XY7
                  => /\ regs_'.vx[NibbleX] = (OperandB - OperandA + 256) % 256
                     /\ (NibbleX # 15 =>
                            regs_'.vx[15] = IF OperandB > OperandA THEN 1 ELSE 0)) ]_vars

\* 8015 has subtracted 0x80 from 0x80 with VF loaded with 1: VF is 0
C17_Witness ==
    /\ StepDone /\ opcode_ = Op(8,0,1,5)
    /\ load8(memory_, PROGRAM_START + 5) = 1
    /\ regs_.vx[0] = 0 /\ regs_.vx[1] = 128 /\ regs_.vx[15] = 0

\* C18 as stated: after 8XYE V[x] = (b << 1) & 0xFF and V[0xF] = (b >> 7) & 1.
C18_ShlFlagIsBit ==
    [][ (IsStep /\ Key = OPCODE_8XYE)
        => /\ regs_'.vx[NibbleX] = (OperandB * 2) % 256
           /\ regs_'.vx[15] = OperandB \div 128 ]_vars

\* C18 amended: 8XYE writes V[0xF] = b & 0x80 (0 or 0x80) and then
\* V[x] = (V[y] << 1) & 0xFF, reading V[y] again: for x, y other than 0xF
\* V[x] = (b << 1) & 0xFF and V[0xF] = b & 0x80; with y = 0xF V[x] = 0; with
\* x = 0xF (y not) V[0xF] = (b << 1) & 0xFF.
C18_ShlFlagIsMsbInPlace ==
    [][ (IsStep /\ Key = OPCODE_8XYE)
        => /\ (NibbleX # 15 /\ NibbleY # 15
                  => /\ regs_'.vx[NibbleX] = (OperandB * 2) % 256
                     /\ regs_'.vx[15] = 128 * (OperandB \div 128))
           /\ (NibbleX # 15 /\ NibbleY = 15
                  => /\ regs_'.vx[NibbleX] = 0
                     /\ regs_'.vx[15] = 128 * (OperandB \div 128))
           /\ (NibbleX = 15 /\ NibbleY # 15
                  => regs_'.vx[15] = (OperandB * 2) % 256)
           /\ (NibbleX = 15 /\ NibbleY = 15 => regs_'.vx[15] = 0) ]_vars

\* 801E has shifted V1 = 0xFF into V0: V0 = 0xFE, VF = 0x80
C18_Witness ==
    /\ StepDone /\ opcode_ = Op(8,0,1,14)
    /\ regs_.vx[1] = 255 /\ regs_.vx[0] = 254 /\ regs_.vx[15] = 128

\* C19 as stated: after 8XY6 V[x] = b >> 1 and V[0xF] = b & 1.
C19_ShrFromVy ==
    [][ (IsStep /\ Key = OPCODE_8XY6)
        => /\ regs_'.vx[NibbleX] = OperandB \div 2
           /\ regs_'.vx[15] = OperandB % 2 ]_vars

\* C19 amended: 8XY6 writes V[0xF] = b & 1 and then V[x] = V[y] >> 1, reading
\* V[y] again: for x, y other than 0xF V[x] = b >> 1 and V[0xF] = b & 1; with
\* y = 0xF V[x] = 0; with x = 0xF (y not) V[0xF] = b >> 1.
C19_ShrFromVyFlagFirst ==
    [][ (IsStep /\ Key = OPCODE_8XY6)
        => /\ (NibbleX # 15 /\ NibbleY # 15
                  => /\ regs_'.vx[NibbleX] = OperandB \div 2
                     /\ regs_'.vx[15] = OperandB % 2)
           /\ (NibbleX # 15 /\ NibbleY = 15
                  => /\ regs_'.vx[NibbleX] = 0
                     /\ regs_'.vx[15] = OperandB % 2)
           /\ (NibbleX = 15 /\ NibbleY # 15
                  => regs_'.vx[15] = OperandB \div 2)
           /\ (NibbleX = 15 /\ NibbleY = 15 => regs_'.vx[15] = 0) ]_vars

\* 8016 has shifted V1 = 0xFF into V0, which held 0x01: V0 = 0x7F, VF = 1
C19_Witness ==
    /\ StepDone /\ opcode_ = Op(8,0,1,6)
    /\ load8(memory_, PROGRAM_START + 1) = 1
    /\ regs_.vx[1] = 255 /\ regs_.vx[0] = 127 /\ regs_.vx[15] = 1

\* the word a fetch at address reads when each byte read wraps to 12 bits
WordAtWrapped(mem, address) ==
    256 * load8(mem, address % MEMORY_SIZE) + load8(mem, (address + 1) % MEMORY_SIZE)

\* the step runs into undefined behaviour through a memory access: the fetch
\* leaves the memory, or the handler is not one that indexes the stack or
\* the key array
LeavesMemoryInStep ==
    /\ ub'
    /\ \/ LeavesMemory(regs_.pc, 2)
       \/ Key \notin {OPCODE_2NNN, OPCODE_00EE, OPCODE_EX9E, OPCODE_EXA1}

\* C20: a memory access at a 16-bit address a touches index a & 0xFFF: the
\* fetch reads the word at PC & 0xFFF, (PC + 1) & 0xFFF, and no step accesses
\* an index outside 0..4095.
C20_MemoryAccessesWrap ==
    [][ IsStep
        => /\ opcode_' = WordAtWrapped(memory_, regs_.pc)
           /\ ~LeavesMemoryInStep ]_vars

(***************************************************************************)
(* Properties of the bulk word store and of the codec (SpecCodec).         *)
(***************************************************************************)
\* C21: a word list stored with storeBuffer(start, words, Endian::LITTLE) is
\* recovered by the big-endian fetch: load<uint16_t>(start + 2 * i) returns
\* words[i], not its byte-swapped value.
C21_LittleStoreIsFetchedBack ==
    (last.kind = "load" /\ last.endian = "LITTLE")
        => opcode_ = last.buffer[last.index + 1]

\* a two-word list with distinct bytes was stored LITTLE at the program
\* start and its second word fetched
C21_Witness ==
    /\ last.kind = "load"
    /\ last.endian = "LITTLE"
    /\ last.startAddress = PROGRAM_START
    /\ last.buffer = <<4660, 43981>>
    /\ last.index = 1
    /\ opcode_ = 43981

\* the high and the low byte of a word
HighByte(word) == word \div 256
LowByte(word) == word % 256

\* C22 as stated: in the bulk 16-bit store "big" places each word's high
\* byte at the lower address and "little" places it at the higher address.
C22_BigIsHighByteFirst ==
    last.kind = "storeBuffer"
        => \A k \in 1..Len(last.buffer) :
              LET address == last.startAddress + 2 * (k - 1)
                  lower == load8(memory_, address)
                  higher == load8(memory_, address + 1)
              IN /\ last.endian = "BIG" => lower = HighByte(last.buffer[k])
                 /\ last.endian = "LITTLE" => higher = HighByte(last.buffer[k])

\* C22 amended: the endian argument names the byte order of the buffer, not
\* of the memory: "little" places each word's high byte at the lower address
\* and its low byte at the higher one, "big" the low byte at the lower
\* address and the high byte at the higher one.
C22_LittleIsHighByteFirst ==
    last.kind = "storeBuffer"
        => \A k \in 1..Len(last.buffer) :
              LET address == last.startAddress + 2 * (k - 1)
                  lower == load8(memory_, address)
                  higher == load8(memory_, address + 1)
                  word == last.buffer[k]
              IN /\ last.endian = "LITTLE"
                      => lower = HighByte(word) /\ higher = LowByte(word)
                 /\ last.endian = "BIG"
                      => lower = LowByte(word) /\ higher = HighByte(word)

\* 0x1234 stored BIG at the program start: 0x34 at 0x200, 0x12 at 0x201
C22_Witness ==
    /\ last.kind = "storeBuffer"
    /\ last.endian = "BIG"
    /\ last.startAddress = PROGRAM_START
    /\ last.buffer = <<4660>>
    /\ load8(memory_, PROGRAM_START) = 52
    /\ load8(memory_, PROGRAM_START + 1) = 18

\* C24: classification returns (opcode & 0xF000) | (opcode & 0x00FF) when
\* the top nibble is 0x0, 0xE or 0xF, (opcode & 0xF000) | (opcode & 0x000F)
\* when it is 0x5, 0x8 or 0x9, and opcode & 0xF000 otherwise: the bitwise |
\* in the decoder's second test behaves as the logical OR.
C24_ClassificationByTopNibble ==
    last.kind = "decodeInstruction"
        => LET top == opcode_ \div 4096
           IN last.instruction =
                  IF top \in {0, 14, 15} THEN top * 4096 + (opcode_ % 256)
                  ELSE IF top \in {5, 8, 9} THEN top * 4096 + (opcode_ % 16)
                  ELSE top * 4096

\* 0x5AB3 was classified as 0x5003: the left operand of the bitwise | held
C24_Witness ==
    /\ last.kind = "decodeInstruction"
    /\ opcode_ = 23219
    /\ last.instruction = 20483

\* C26: for each operand shape X, XKK, XY, XYN, NNN and every in-range
\* operand tuple, decoding the opcode built by the matching encoder returns
\* exactly that tuple.
C26_DecodeInvertsEncode ==
    last.kind = "decode" => last.decoded = last.op

\* DXYN was encoded from (10, 11, 12) as 0xDABC and decoded back
C26_Witness ==
    /\ last.kind = "decode"
    /\ last.shape = "XYN"
    /\ last.op = [x |-> 10, y |-> 11, n |-> 12]
    /\ opcode_ = 55996
    /\ last.decoded = [x |-> 10, y |-> 11, n |-> 12]

(***************************************************************************)
(* Properties of the key skips, the unknown opcodes and the font (Spec).   *)
(***************************************************************************)
\* C23: EX9E skips the next instruction iff key V[x] & 0xF is pressed, EXA1
\* iff that key is not pressed; for V[x] >= 16 only the low nibble selects
\* the key and no key slot outside 0..15 is read.
C23_KeySkipsUseLowNibble ==
    [][ (IsStep /\ Key \in {OPCODE_EX9E, OPCODE_EXA1})
        => LET pressed == (regs_.vx[NibbleX] % KEY_COUNT) \in keys_
               skips == IF Key = OPCODE_EX9E THEN pressed ELSE ~pressed
           IN /\ ~ub'
              /\ regs_'.pc = U16(regs_.pc + PC_INCR
                                 + (IF skips THEN PC_INCR ELSE 0)) ]_vars

\* the canonical keys INSTRUCTION_TABLE has an entry for
InstructionKeys ==
    {OPCODE_00E0, OPCODE_00EE, OPCODE_1NNN, OPCODE_2NNN, OPCODE_3XKK,
     OPCODE_4XKK, OPCODE_5XY0, OPCODE_6XKK, OPCODE_7XKK, OPCODE_8XY0,
     OPCODE_8XY1, OPCODE_8XY2, OPCODE_8XY3, OPCODE_8XY4, OPCODE_8XY5,
     OPCODE_8XY6, OPCODE_8XY7, OPCODE_8XYE, OPCODE_9XY0, OPCODE_ANNN,
     OPCODE_BNNN, OPCODE_CXKK, OPCODE_DXYN, OPCODE_EX9E, OPCODE_EXA1,
     OPCODE_FX07, OPCODE_FX15, OPCODE_FX18, OPCODE_FX1E, OPCODE_FX29,
     OPCODE_FX33, OPCODE_FX55, OPCODE_FX65}

\* C25: a step whose opcode has a canonical key outside the instruction
\* table changes only PC (by +2) and, when due, the timers (each by one
\* down): V, I, SP, the stack, the memory and the framebuffer are unchanged.
C25_UnknownOpcodeIsNoOp ==
    [][ (IsStep /\ Key \notin InstructionKeys /\ ~LeavesMemory(regs_.pc, 2))
        => /\ regs_'.pc = U16(regs_.pc + PC_INCR)
           /\ regs_'.vx = regs_.vx
           /\ regs_'.i = regs_.i
           /\ regs_'.sp = regs_.sp
           /\ regs_'.stack = regs_.stack
           /\ regs_'.dt \in {regs_.dt, regs_.dt - 1}
           /\ regs_'.st \in {regs_.st, regs_.st - 1}
           /\ memory_' = memory_
           /\ framebuffer_' = framebuffer_
           /\ ~ub' ]_vars

\* the unknown opcode 0x0123 has run after V0, V1 and I were loaded
C25_Witness ==
    /\ StepDone
    /\ opcode_ = Op(0,1,2,3)
    /\ DoneKey \notin InstructionKeys
    /\ regs_.pc = U16(last.pc + PC_INCR)
    /\ regs_.vx[0] = 167
    /\ regs_.i = 5

\* the sixteen glyphs of the font table as specified, digit k at index k + 1
SpecifiedGlyphs ==
    << <<240, 144, 144, 144, 240>>, <<32, 96, 32, 32, 112>>,
       <<240, 16, 240, 128, 240>>, <<240, 16, 240, 16, 240>>,
       <<144, 144, 240, 16, 16>>, <<240, 128, 240, 16, 240>>,
       <<240, 128, 240, 144, 240>>, <<240, 16, 32, 64, 64>>,
       <<240, 144, 240, 144, 240>>, <<240, 144, 240, 16, 240>>,
       <<240, 144, 240, 144, 144>>, <<224, 144, 224, 144, 224>>,
       <<240, 128, 128, 128, 240>>, <<224, 144, 144, 144, 224>>,
       <<240, 128, 240, 128, 240>>, <<240, 128, 240, 128, 128>> >>

\* C28: after the initialisation memory[5k .. 5k+4] holds the specified
\* 5-byte glyph of every digit k in 0..15 (glyph C is F0 80 80 80 F0), the
\* table occupying 0x000..0x04F.
C28_FontTableAsSpecified ==
    last.kind = "init"
        => \A k \in 0..15 : \A j \in 0..4 :
              load8(memory_, 5 * k + j) = SpecifiedGlyphs[k + 1][j + 1]

(***************************************************************************)
(* Properties of FX29, FX33 and FX55 (SpecIndex).                          *)
(***************************************************************************)
\* C27: for every byte value of V[x], after FX29 I = 5 * (V[x] & 0xF), the
\* base of one of the sixteen glyphs (0, 5, ..., 75).
C27_FontAddressUsesLowNibble ==
    [][ (IsStep /\ Key = OPCODE_FX29)
        => regs_'.i = 5 * (regs_.vx[NibbleX] % 16) ]_vars

\* every byte of the memory outside first..last is what it was
MemoryKeptOutside(first, last_) ==
    \A a \in ((DOMAIN memory_) \cup (DOMAIN memory_')) \ (first..last_) :
        load8(memory_', a) = load8(memory_, a)

\* C29: for every byte v = V[x], FX33 writes memory[I] = v div 100,
\* memory[I+1] = (v div 10) mod 10 and memory[I+2] = v mod 10, and leaves I,
\* every V register and every other memory byte unchanged (I .. I+2 inside
\* the memory).
C29_BcdDigits ==
    [][ (IsStep /\ Key = OPCODE_FX33 /\ ~LeavesMemory(regs_.i, 3))
        => LET v == regs_.vx[NibbleX]
               i == regs_.i
           IN /\ load8(memory_', i) = v \div 100
              /\ load8(memory_', i + 1) = (v \div 10) % 10
              /\ load8(memory_', i + 2) = v % 10
              /\ MemoryKeptOutside(i, i + 2)
              /\ regs_'.i = i
              /\ regs_'.vx = regs_.vx
              /\ ~ub' ]_vars

\* F033 has run with V0 = 207 and I = 0x300: 2, 0, 7 at 0x300..0x302
C29_Witness ==
    /\ StepDone
    /\ opcode_ = Op(15,0,3,3)
    /\ regs_.vx[0] = 207
    /\ regs_.i = 768
    /\ load8(memory_, 768) = 2
    /\ load8(memory_, 769) = 0
    /\ load8(memory_, 770) = 7

\* C30: FX55 with I = i writes V[k] to memory[i + k] for every k in 0..x,
\* leaves the memory outside i..i+x and all V registers unchanged, and ends
\* with I = i + x + 1 (i .. i+x inside the memory).
C30_StoreRegistersAdvancesI ==
    [][ (IsStep /\ Key = OPCODE_FX55 /\ ~LeavesMemory(regs_.i, NibbleX + 1))
        => LET i == regs_.i
               x == NibbleX
           IN /\ \A k \in 0..x : load8(memory_', i + k) = regs_.vx[k]
              /\ MemoryKeptOutside(i, i + x)
              /\ regs_'.vx = regs_.vx
              /\ regs_'.i = i + x + 1
              /\ ~ub' ]_vars

\* FF55 has run with I = 0xFF0, V0 = 200, V1 = 0x3C, VF = 0xC3: the last
\* sixteen bytes of the memory hold V0..VF and I is 0x1000
C30_Witness ==
    /\ StepDone
    /\ opcode_ = Op(15,15,5,5)
    /\ last.i = MEMORY_SIZE - REG_COUNT
    /\ regs_.i = MEMORY_SIZE
    /\ load8(memory_, MEMORY_SIZE - REG_COUNT) = 200
    /\ load8(memory_, MEMORY_SIZE - REG_COUNT + 1) = 60
    /\ load8(memory_, MEMORY_SIZE - 1) = 195
    /\ ~ub

\* C31: FX65 with I = i sets V[k] = memory[i + k] for every k in 0..x,
\* leaves V[x+1..0xF] and all of the memory unchanged, and ends with
\* I = i + x + 1 (i .. i+x inside the memory).
C31_LoadRegistersAdvancesI ==
    [][ (IsStep /\ Key = OPCODE_FX65 /\ ~LeavesMemory(regs_.i, NibbleX + 1))
        => LET i == regs_.i
               x == NibbleX
           IN /\ \A k \in 0..x : regs_'.vx[k] = load8(memory_, i + k)
              /\ \A k \in (x + 1)..(REG_COUNT - 1) : regs_'.vx[k] = regs_.vx[k]
              /\ memory_' = memory_
              /\ regs_'.i = i + x + 1
              /\ ~ub' ]_vars

\* F165 has run with I = 0x200 on the image 60C9 613C ...: V0 = 0x60,
\* V1 = 0xC9, VF still 0xC3, I = 0x202
C31_Witness ==
    /\ StepDone
    /\ opcode_ = Op(15,1,6,5)
    /\ last.i = PROGRAM_START
    /\ regs_.i = PROGRAM_START + 2
    /\ regs_.vx[0] = 96
    /\ regs_.vx[1] = 201
    /\ regs_.vx[15] = 195
    /\ ~ub

(***************************************************************************)
(* Properties of the skips, the random number, reset and 00E0 (Spec).      *)
(***************************************************************************)
\* the condition of the conditional skip the step runs
SkipCondition ==
    CASE Key = OPCODE_3XKK -> regs_.vx[NibbleX] = ByteKK
      [] Key = OPCODE_4XKK -> regs_.vx[NibbleX] # ByteKK
      [] Key = OPCODE_5XY0 -> regs_.vx[NibbleX] = regs_.vx[NibbleY]
      [] Key = OPCODE_9XY0 -> regs_.vx[NibbleX] # regs_.vx[NibbleY]

\* does the handler skip from the current machine
Skips(machines) == \A m \in machines : m.regs.pc = U16(regs_.pc + 2)

\* with the operands of the step's opcode exactly one of 3XKK / 4XKK, and
\* exactly one of 5XY0 / 9XY0, skips from the state before the step
ExactlyOneSkips ==
    /\ Skips(opcodeSkipNextIfEquals(Machine, OPCODE_3XKK + AddrNNN))
           # Skips(opcodeSkipNextIfNotEquals(Machine, OPCODE_4XKK + AddrNNN))
    /\ Skips(opcodeSkipNextIfEqualsRegister(Machine, Op(5, NibbleX, NibbleY, 0)))
           # Skips(opcodeSkipNextIfNotEqualsRegister(Machine, Op(9, NibbleX, NibbleY, 0)))

\* C32: a conditional skip ends with PC = pre-fetch PC + 4 when its
\* condition holds (3XKK: V[x] = KK, 4XKK: V[x] # KK, 5XY0: V[x] = V[y],
\* 9XY0: V[x] # V[y]) and pre-fetch PC + 2 otherwise; it changes no V, I, SP,
\* stack slot, memory byte or pixel (the timers only as the step's timer
\* update does); from one state exactly one of 3XKK / 4XKK and one of
\* 5XY0 / 9XY0 with the same operands skips.
C32_ConditionalSkips ==
    [][ (IsStep /\ ~LeavesMemory(regs_.pc, 2)
         /\ Key \in {OPCODE_3XKK, OPCODE_4XKK, OPCODE_5XY0, OPCODE_9XY0})
           => /\ ExactlyOneSkips
              /\ regs_'.pc = U16(regs_.pc + (IF SkipCondition THEN 4 ELSE 2))
              /\ regs_'.vx = regs_.vx
              /\ regs_'.i = regs_.i
              /\ regs_'.sp = regs_.sp
              /\ regs_'.stack = regs_.stack
              /\ regs_'.dt \in {regs_.dt, regs_.dt - 1}
              /\ regs_'.st \in {regs_.st, regs_.st - 1}
              /\ memory_' = memory_
              /\ framebuffer_' = framebuffer_ ]_vars

\* 4100 has run with V1 = 0x33: the skip was taken
C32_Witness ==
    /\ StepDone
    /\ opcode_ = Op(4,1,0,0)
    /\ regs_.vx[1] = 51
    /\ regs_.pc = U16(last.pc + 4)

\* C33: after CXKK V[x] & ~KK = 0 (hence V[x] <= KK) for every KK and every
\* number drawn, and no other register changes.
C33_RandomIsMasked ==
    [][ (IsStep /\ Key = OPCODE_CXKK /\ ~LeavesMemory(regs_.pc, 2))
        => /\ BitAnd(regs_'.vx[NibbleX], 255 - ByteKK) = 0
           /\ regs_'.vx[NibbleX] <= ByteKK
           /\ \A k \in (0..(REG_COUNT - 1)) \ {NibbleX} :
                 regs_'.vx[k] = regs_.vx[k]
           /\ regs_'.pc = U16(regs_.pc + PC_INCR)
           /\ regs_'.i = regs_.i
           /\ regs_'.sp = regs_.sp
           /\ regs_'.stack = regs_.stack ]_vars

\* C20F has run and drawn 90: V2 = 90 & 0x0F
C33_Witness ==
    /\ StepDone
    /\ opcode_ = Op(12,2,0,15)
    /\ regs_.vx[2] = 10

\* the register values the claim gives for a constructed or reset CPU
AtResetValues(regs) ==
    /\ regs.pc = PROGRAM_START
    /\ \A r \in 0..(REG_COUNT - 1) : regs.vx[r] = 0
    /\ regs.sp = 0
    /\ regs.i = 0
    /\ regs.dt = 0
    /\ regs.st = 0

\* C34: after construction, and after reset() from any reachable state,
\* PC = 0x200, V[0..0xF] = 0, SP = 0, I = 0 and DT = ST = 0; reset leaves
\* every byte of main memory unchanged.
C34_ResetValues ==
    /\ AtResetValues(regs_)
    /\ [][ last'.kind = "reset"
           => /\ AtResetValues(regs_')
              /\ memory_' = memory_ ]_vars

\* reset() has run on a CPU whose PC, V0, I and DT it had to change, with a
\* program in memory
C34_Witness ==
    /\ last.kind = "reset"
    /\ last.pc # PROGRAM_START
    /\ last.i # 0
    /\ last.dt # 0
    /\ AtResetValues(regs_)
    /\ load8(memory_, PROGRAM_START) # 0

\* C35: reset clears the framebuffer: after a reset every pixel is 0,
\* whatever was drawn before.
C35_ResetClearsFramebuffer ==
    [][ last'.kind = "reset" => framebuffer_' = EmptyMemory ]_vars

(***************************************************************************)
(* Properties of 00E0 and of the XOR blit (SpecDraw).                      *)
(***************************************************************************)
\* C36: after 00E0 every framebuffer pixel is 0 regardless of the prior
\* contents, and no register other than PC changes (PC advances by 2; the
\* timers change only as the step's timer update changes them).
C36_ClearDisplay ==
    [][ (IsStep /\ Key = OPCODE_00E0 /\ ~LeavesMemory(regs_.pc, 2))
        => /\ \A a \in 0..(DISPLAY_WIDTH * DISPLAY_HEIGHT - 1) :
                 load8(framebuffer_', a) = 0
           /\ regs_'.pc = U16(regs_.pc + PC_INCR)
           /\ regs_'.vx = regs_.vx
           /\ regs_'.i = regs_.i
           /\ regs_'.sp = regs_.sp
           /\ regs_'.stack = regs_.stack
           /\ regs_'.dt \in {regs_.dt, regs_.dt - 1}
           /\ regs_'.st \in {regs_.st, regs_.st - 1}
           /\ memory_' = memory_ ]_vars

\* 00E0 has run after the font's 0 was drawn at (29, 60) and a five-row
\* sprite was drawn twice at (60, 29): no pixel is left
C36_Witness ==
    /\ StepDone
    /\ opcode_ = Op(0,0,14,0)
    /\ WordAt(memory_, PROGRAM_START + 6) = Op(13,1,0,5)
    /\ WordAt(memory_, PROGRAM_START + 8) = Op(13,0,1,5)
    /\ regs_.i = 0
    /\ regs_.vx[0] = 60
    /\ regs_.vx[1] = 29
    /\ framebuffer_ = EmptyMemory

\* the sprite rows a DXYN step passes to drawSprite (rows inside the memory)
SpriteOfStep == [r \in 1..(opcode_' % 16) |-> load8(memory_, regs_.i + r - 1)]

\* the framebuffer a program of DrawPrograms has built before its two equal
\* draws: empty, or the five rows at I drawn by the opcode at 0x206
PriorFrame ==
    LET prior == WordAt(memory_, PROGRAM_START + 6)
    IN IF decodeInstruction(prior) = OPCODE_DXYN
       THEN drawSprite(EmptyMemory, regs_.vx[(prior \div 256) % 16],
                       regs_.vx[(prior \div 16) % 16],
                       [r \in 1..5 |-> load8(memory_, regs_.i + r - 1)]).frame
       ELSE EmptyMemory

\* C39: the XOR blit is an involution: drawing the same sprite at the same
\* coordinates twice restores the framebuffer, for every sprite, every
\* position (wrapping ones included) and every prior framebuffer whose cells
\* are 0x00 or 0xFF.  On every DXYN step the framebuffer holds only 0x00 and
\* 0xFF, the step draws the sprite once, and one more draw of the same
\* sprite at the same place gives the frame before the step; the second of
\* the two equal DXYN of a program (at 0x20A) leaves the frame the program
\* had built before the first.
C39_BlitIsInvolution ==
    [][ (IsStep /\ Key = OPCODE_DXYN /\ ~ub')
        => LET x == regs_.vx[NibbleX]
               y == regs_.vx[NibbleY]
           IN /\ \A a \in DOMAIN framebuffer_ : framebuffer_[a] = 255
              /\ framebuffer_' = drawSprite(framebuffer_, x, y, SpriteOfStep).frame
              /\ drawSprite(framebuffer_', x, y, SpriteOfStep).frame = framebuffer_
              /\ regs_.pc = PROGRAM_START + 10 => framebuffer_' = PriorFrame ]_vars

\* the fifteen rows of the program's own bytes have been drawn twice at
\* (255, 255), wrapping on both axes, over the font's 0 drawn at (255, 255):
\* the second draw erased pixels and the font's 0 is back
C39_Witness ==
    /\ StepDone
    /\ opcode_ = Op(13,0,1,15)
    /\ last.pc = PROGRAM_START + 10
    /\ regs_.i = PROGRAM_START
    /\ regs_.vx[0] = 255
    /\ regs_.vx[1] = 255
    /\ regs_.vx[15] = 1
    /\ WordAt(memory_, PROGRAM_START + 6) = Op(13,0,1,5)
    /\ framebuffer_ # EmptyMemory
    /\ framebuffer_ = PriorFrame

(***************************************************************************)
(* Properties of the program load (SpecLoad).                              *)
(***************************************************************************)
\* C37: loading a program image of L bytes (L <= 3584) writes exactly
\* memory[0x200 .. 0x200 + L - 1], the bytes of the image, and modifies no
\* other address: not memory[0x200 + L], and never an index past 0xFFF.
C37_LoadWritesExactlyImage ==
    [][ last'.kind = "loadFile"
        => LET file == last'.file
               image == PROGRAM_START..(PROGRAM_START + Len(file) - 1)
           IN /\ last'.stored = image
              /\ \A a \in image : load8(memory_', a) = file[a - PROGRAM_START + 1]
              /\ \A a \in (0..(MEMORY_SIZE - 1)) \ image :
                    load8(memory_', a) = load8(memory_, a)
              /\ ~ub' ]_vars

(***************************************************************************)
(* Properties of the host loop (SpecHost).                                 *)
(***************************************************************************)
\* C38: in one iteration of the host loop (tick, update, updateTimer,
\* keyboard update, optional draw) each of DT and ST is decremented at most
\* once, whatever the elapsed time.  Stated on the iterations whose
\* instruction does not load the timer.
C38_OneDecrementPerIteration ==
    [][ last'.kind = "iteration"
        => /\ Key # OPCODE_FX15 => regs_'.dt >= regs_.dt - 1
           /\ Key # OPCODE_FX18 => regs_'.st >= regs_.st - 1 ]_vars

=============================================================================
